---- MODULE Spec2Model ----
(***************************************************************************)
(* pdf2txt: the text reconstruction pipeline (processPDF, src/README.md)   *)
(* and the batch queue of the UI (App, src/app/pdf2txt-ui.js).             *)
(*                                                                         *)
(* Representation.                                                         *)
(*  - A JavaScript string is a sequence of UTF-16 code units (integers):   *)
(*    "a-" is <<97, 45>>, the empty string is <<>>.                        *)
(*  - A number (x, y, width, height, threshold, ratio) is an IEEE 754     *)
(*    binary64 value, and every sum, product, quotient and comparison of   *)
(*    the source is computed on it with the rounding of the engine (see    *)
(*    Numbers).  The documents that the specifications start from give     *)
(*    their lengths as decimal numerals of two places, written in          *)
(*    hundredths: 1204 stands for the number that 12.04 denotes.           *)
(***************************************************************************)
EXTENDS Integers, Sequences, FiniteSets, TLC

VARIABLES
    \* ---- one processPDF invocation (src/README.md 79-544)
    file,            \* the document handed in: name, pages, extraction failure
    aborted,         \* options.signal.aborted
    pc,              \* position in processPDF
    pageNo,          \* loop variable i of the page loop
    allItems,        \* fragments ingested so far
    pdfOpen,         \* pdf !== null and not yet destroyed
    destroyed,       \* number of pdf.destroy() calls
    cleaned,         \* pages whose page.cleanup() was called
    pagesLoaded,     \* pages whose handle pdf.getPage(i) has returned
    bodyHeight,      \* the mode of the rounded heights
    lines,           \* the visual lines of the sequencer
    lineMeta,        \* {line, lineStr, maxLineHeight} per line
    markdownLines,   \* output lines of the classifier
    rawIn,           \* rawMD before the last normalizer step
    rawMD,           \* the text being normalized
    result,          \* what processPDF settled with
    \* ---- the batch queue (src/app/pdf2txt-ui.js 153-394)
    files,           \* filesRef.current: the queue
    isProcessing,    \* the isProcessing state
    cpc,             \* position in convertAll
    item,            \* id of the entry convertAll is working on
    controllers,     \* abortControllersRef: ids that have a controller
    signals,         \* ids whose controller was aborted
    inflight,        \* ids whose processPDF call has not settled
    nextId,          \* ids handed out so far
    engineReady,     \* the engineReady state
    idsAtStart       \* history: the ids handed out when the running batch was started

pipeVars == <<file, aborted, pc, pageNo, allItems, pdfOpen, destroyed, cleaned, pagesLoaded,
              bodyHeight, lines, lineMeta, markdownLines, rawIn, rawMD, result>>
batchVars == <<files, isProcessing, cpc, item, controllers, signals, inflight, nextId,
               engineReady, idsAtStart>>
vars == <<pipeVars, batchVars>>

----------------------------------------------------------------------------
(* Characters *)

NL == 10
TAB == 9
SP == 32
HASH == 35
STAR == 42
HYPHEN == 45
DOT == 46
SLASH == 47
BANG == 33
QMARK == 63
BULLET == 8226
BLACKCIRCLE == 9679
ENDASH == 8211
EMDASH == 8212
CJKSTOP == 12290
FWBANG == 65281
FWQMARK == 65311

\* \s of the source's regular expressions and String.prototype.trim: the
\* white space and line terminators of ECMAScript
WhiteSpace ==
    {TAB, NL, 11, 12, 13, SP, 160, 5760, 8232, 8233, 8239, 8287, 12288, 65279}
    \cup (8192..8202)

IsSpace(c) == c \in WhiteSpace

\* the character class of isCJKChar, on one code unit
InCJKRange(c) ==
    \/ (c >= 12352 /\ c <= 12543)
    \/ (c >= 13312 /\ c <= 19903)
    \/ (c >= 19968 /\ c <= 40959)
    \/ (c >= 63744 /\ c <= 64255)
    \/ (c >= 44032 /\ c <= 55215)

\* isCJKChar / isCJKCharLocal: the regular expression has no u flag and no
\* anchor, so it looks for a code unit of the class anywhere in ch
isCJKChar(ch) == \E k \in 1..Len(ch) : InCJKRange(ch[k])

\* \d
IsDigit(c) == c >= 48 /\ c <= 57

\* ---- code points: the regular expressions with the u flag and for...of read
\* a surrogate pair as one character

IsHighSurrogate(c) == c >= 55296 /\ c <= 56319
IsLowSurrogate(c) == c >= 56320 /\ c <= 57343

\* a surrogate pair starts at position i of s
IsPair(s, i) == i < Len(s) /\ IsHighSurrogate(s[i]) /\ IsLowSurrogate(s[i + 1])

\* the code point that starts at position i of s, and its number of code units
CodePointAt(s, i) ==
    IF IsPair(s, i) THEN 65536 + (s[i] - 55296) * 1024 + (s[i + 1] - 56320) ELSE s[i]

CodePointLength(s, i) == IF IsPair(s, i) THEN 2 ELSE 1

CodeUnits(cp) ==
    IF cp < 65536 THEN <<cp>>
    ELSE <<55296 + ((cp - 65536) \div 1024), 56320 + ((cp - 65536) % 1024)>>

InRanges(cp, ranges) == \E r \in ranges : r[1] <= cp /\ cp <= r[2]

\* \p{L}: the code points above 127 of general category L
LetterRanges ==
    {
      <<170, 170>>, <<181, 181>>, <<186, 186>>, <<192, 214>>, <<216, 246>>, <<248, 705>>,
      <<710, 721>>, <<736, 740>>, <<748, 748>>, <<750, 750>>, <<880, 884>>, <<886, 887>>,
      <<890, 893>>, <<895, 895>>, <<902, 902>>, <<904, 906>>, <<908, 908>>, <<910, 929>>,
      <<931, 1013>>, <<1015, 1153>>, <<1162, 1327>>, <<1329, 1366>>, <<1369, 1369>>, <<1376, 1416>>,
      <<1488, 1514>>, <<1519, 1522>>, <<1568, 1610>>, <<1646, 1647>>, <<1649, 1747>>, <<1749, 1749>>,
      <<1765, 1766>>, <<1774, 1775>>, <<1786, 1788>>, <<1791, 1791>>, <<1808, 1808>>, <<1810, 1839>>,
      <<1869, 1957>>, <<1969, 1969>>, <<1994, 2026>>, <<2036, 2037>>, <<2042, 2042>>, <<2048, 2069>>,
      <<2074, 2074>>, <<2084, 2084>>, <<2088, 2088>>, <<2112, 2136>>, <<2144, 2154>>, <<2160, 2183>>,
      <<2185, 2191>>, <<2208, 2249>>, <<2308, 2361>>, <<2365, 2365>>, <<2384, 2384>>, <<2392, 2401>>,
      <<2417, 2432>>, <<2437, 2444>>, <<2447, 2448>>, <<2451, 2472>>, <<2474, 2480>>, <<2482, 2482>>,
      <<2486, 2489>>, <<2493, 2493>>, <<2510, 2510>>, <<2524, 2525>>, <<2527, 2529>>, <<2544, 2545>>,
      <<2556, 2556>>, <<2565, 2570>>, <<2575, 2576>>, <<2579, 2600>>, <<2602, 2608>>, <<2610, 2611>>,
      <<2613, 2614>>, <<2616, 2617>>, <<2649, 2652>>, <<2654, 2654>>, <<2674, 2676>>, <<2693, 2701>>,
      <<2703, 2705>>, <<2707, 2728>>, <<2730, 2736>>, <<2738, 2739>>, <<2741, 2745>>, <<2749, 2749>>,
      <<2768, 2768>>, <<2784, 2785>>, <<2809, 2809>>, <<2821, 2828>>, <<2831, 2832>>, <<2835, 2856>>,
      <<2858, 2864>>, <<2866, 2867>>, <<2869, 2873>>, <<2877, 2877>>, <<2908, 2909>>, <<2911, 2913>>,
      <<2929, 2929>>, <<2947, 2947>>, <<2949, 2954>>, <<2958, 2960>>, <<2962, 2965>>, <<2969, 2970>>,
      <<2972, 2972>>, <<2974, 2975>>, <<2979, 2980>>, <<2984, 2986>>, <<2990, 3001>>, <<3024, 3024>>,
      <<3077, 3084>>, <<3086, 3088>>, <<3090, 3112>>, <<3114, 3129>>, <<3133, 3133>>, <<3160, 3162>>,
      <<3164, 3165>>, <<3168, 3169>>, <<3200, 3200>>, <<3205, 3212>>, <<3214, 3216>>, <<3218, 3240>>,
      <<3242, 3251>>, <<3253, 3257>>, <<3261, 3261>>, <<3292, 3294>>, <<3296, 3297>>, <<3313, 3314>>,
      <<3332, 3340>>, <<3342, 3344>>, <<3346, 3386>>, <<3389, 3389>>, <<3406, 3406>>, <<3412, 3414>>,
      <<3423, 3425>>, <<3450, 3455>>, <<3461, 3478>>, <<3482, 3505>>, <<3507, 3515>>, <<3517, 3517>>,
      <<3520, 3526>>, <<3585, 3632>>, <<3634, 3635>>, <<3648, 3654>>, <<3713, 3714>>, <<3716, 3716>>,
      <<3718, 3722>>, <<3724, 3747>>, <<3749, 3749>>, <<3751, 3760>>, <<3762, 3763>>, <<3773, 3773>>,
      <<3776, 3780>>, <<3782, 3782>>, <<3804, 3807>>, <<3840, 3840>>, <<3904, 3911>>, <<3913, 3948>>,
      <<3976, 3980>>, <<4096, 4138>>, <<4159, 4159>>, <<4176, 4181>>, <<4186, 4189>>, <<4193, 4193>>,
      <<4197, 4198>>, <<4206, 4208>>, <<4213, 4225>>, <<4238, 4238>>, <<4256, 4293>>, <<4295, 4295>>,
      <<4301, 4301>>, <<4304, 4346>>, <<4348, 4680>>, <<4682, 4685>>, <<4688, 4694>>, <<4696, 4696>>,
      <<4698, 4701>>, <<4704, 4744>>, <<4746, 4749>>, <<4752, 4784>>, <<4786, 4789>>, <<4792, 4798>>,
      <<4800, 4800>>, <<4802, 4805>>, <<4808, 4822>>, <<4824, 4880>>, <<4882, 4885>>, <<4888, 4954>>,
      <<4992, 5007>>, <<5024, 5109>>, <<5112, 5117>>, <<5121, 5740>>, <<5743, 5759>>, <<5761, 5786>>,
      <<5792, 5866>>, <<5873, 5880>>, <<5888, 5905>>, <<5919, 5937>>, <<5952, 5969>>, <<5984, 5996>>,
      <<5998, 6000>>, <<6016, 6067>>, <<6103, 6103>>, <<6108, 6108>>, <<6176, 6264>>, <<6272, 6276>>,
      <<6279, 6312>>, <<6314, 6314>>, <<6320, 6389>>, <<6400, 6430>>, <<6480, 6509>>, <<6512, 6516>>,
      <<6528, 6571>>, <<6576, 6601>>, <<6656, 6678>>, <<6688, 6740>>, <<6823, 6823>>, <<6917, 6963>>,
      <<6981, 6988>>, <<7043, 7072>>, <<7086, 7087>>, <<7098, 7141>>, <<7168, 7203>>, <<7245, 7247>>,
      <<7258, 7293>>, <<7296, 7306>>, <<7312, 7354>>, <<7357, 7359>>, <<7401, 7404>>, <<7406, 7411>>,
      <<7413, 7414>>, <<7418, 7418>>, <<7424, 7615>>, <<7680, 7957>>, <<7960, 7965>>, <<7968, 8005>>,
      <<8008, 8013>>, <<8016, 8023>>, <<8025, 8025>>, <<8027, 8027>>, <<8029, 8029>>, <<8031, 8061>>,
      <<8064, 8116>>, <<8118, 8124>>, <<8126, 8126>>, <<8130, 8132>>, <<8134, 8140>>, <<8144, 8147>>,
      <<8150, 8155>>, <<8160, 8172>>, <<8178, 8180>>, <<8182, 8188>>, <<8305, 8305>>, <<8319, 8319>>,
      <<8336, 8348>>, <<8450, 8450>>, <<8455, 8455>>, <<8458, 8467>>, <<8469, 8469>>, <<8473, 8477>>,
      <<8484, 8484>>, <<8486, 8486>>, <<8488, 8488>>, <<8490, 8493>>, <<8495, 8505>>, <<8508, 8511>>,
      <<8517, 8521>>, <<8526, 8526>>, <<8579, 8580>>, <<11264, 11492>>, <<11499, 11502>>, <<11506, 11507>>,
      <<11520, 11557>>, <<11559, 11559>>, <<11565, 11565>>, <<11568, 11623>>, <<11631, 11631>>, <<11648, 11670>>,
      <<11680, 11686>>, <<11688, 11694>>, <<11696, 11702>>, <<11704, 11710>>, <<11712, 11718>>, <<11720, 11726>>,
      <<11728, 11734>>, <<11736, 11742>>, <<11823, 11823>>, <<12293, 12294>>, <<12337, 12341>>, <<12347, 12348>>,
      <<12353, 12438>>, <<12445, 12447>>, <<12449, 12538>>, <<12540, 12543>>, <<12549, 12591>>, <<12593, 12686>>,
      <<12704, 12735>>, <<12784, 12799>>, <<13312, 19903>>, <<19968, 42124>>, <<42192, 42237>>, <<42240, 42508>>,
      <<42512, 42527>>, <<42538, 42539>>, <<42560, 42606>>, <<42623, 42653>>, <<42656, 42725>>, <<42775, 42783>>,
      <<42786, 42888>>, <<42891, 42972>>, <<42993, 43009>>, <<43011, 43013>>, <<43015, 43018>>, <<43020, 43042>>,
      <<43072, 43123>>, <<43138, 43187>>, <<43250, 43255>>, <<43259, 43259>>, <<43261, 43262>>, <<43274, 43301>>,
      <<43312, 43334>>, <<43360, 43388>>, <<43396, 43442>>, <<43471, 43471>>, <<43488, 43492>>, <<43494, 43503>>,
      <<43514, 43518>>, <<43520, 43560>>, <<43584, 43586>>, <<43588, 43595>>, <<43616, 43638>>, <<43642, 43642>>,
      <<43646, 43695>>, <<43697, 43697>>, <<43701, 43702>>, <<43705, 43709>>, <<43712, 43712>>, <<43714, 43714>>,
      <<43739, 43741>>, <<43744, 43754>>, <<43762, 43764>>, <<43777, 43782>>, <<43785, 43790>>, <<43793, 43798>>,
      <<43808, 43814>>, <<43816, 43822>>, <<43824, 43866>>, <<43868, 43881>>, <<43888, 44002>>, <<44032, 55203>>,
      <<55216, 55238>>, <<55243, 55291>>, <<63744, 64109>>, <<64112, 64217>>, <<64256, 64262>>, <<64275, 64279>>,
      <<64285, 64285>>, <<64287, 64296>>, <<64298, 64310>>, <<64312, 64316>>, <<64318, 64318>>, <<64320, 64321>>,
      <<64323, 64324>>, <<64326, 64433>>, <<64467, 64829>>, <<64848, 64911>>, <<64914, 64967>>, <<65008, 65019>>,
      <<65136, 65140>>, <<65142, 65276>>, <<65313, 65338>>, <<65345, 65370>>, <<65382, 65470>>, <<65474, 65479>>,
      <<65482, 65487>>, <<65490, 65495>>, <<65498, 65500>>, <<65536, 65547>>, <<65549, 65574>>, <<65576, 65594>>,
      <<65596, 65597>>, <<65599, 65613>>, <<65616, 65629>>, <<65664, 65786>>, <<66176, 66204>>, <<66208, 66256>>,
      <<66304, 66335>>, <<66349, 66368>>, <<66370, 66377>>, <<66384, 66421>>, <<66432, 66461>>, <<66464, 66499>>,
      <<66504, 66511>>, <<66560, 66717>>, <<66736, 66771>>, <<66776, 66811>>, <<66816, 66855>>, <<66864, 66915>>,
      <<66928, 66938>>, <<66940, 66954>>, <<66956, 66962>>, <<66964, 66965>>, <<66967, 66977>>, <<66979, 66993>>,
      <<66995, 67001>>, <<67003, 67004>>, <<67008, 67059>>, <<67072, 67382>>, <<67392, 67413>>, <<67424, 67431>>,
      <<67456, 67461>>, <<67463, 67504>>, <<67506, 67514>>, <<67584, 67589>>, <<67592, 67592>>, <<67594, 67637>>,
      <<67639, 67640>>, <<67644, 67644>>, <<67647, 67669>>, <<67680, 67702>>, <<67712, 67742>>, <<67808, 67826>>,
      <<67828, 67829>>, <<67840, 67861>>, <<67872, 67897>>, <<67904, 67929>>, <<67968, 68023>>, <<68030, 68031>>,
      <<68096, 68096>>, <<68112, 68115>>, <<68117, 68119>>, <<68121, 68149>>, <<68192, 68220>>, <<68224, 68252>>,
      <<68288, 68295>>, <<68297, 68324>>, <<68352, 68405>>, <<68416, 68437>>, <<68448, 68466>>, <<68480, 68497>>,
      <<68608, 68680>>, <<68736, 68786>>, <<68800, 68850>>, <<68864, 68899>>, <<68938, 68965>>, <<68975, 68997>>,
      <<69248, 69289>>, <<69296, 69297>>, <<69314, 69319>>, <<69376, 69404>>, <<69415, 69415>>, <<69424, 69445>>,
      <<69488, 69505>>, <<69552, 69572>>, <<69600, 69622>>, <<69635, 69687>>, <<69745, 69746>>, <<69749, 69749>>,
      <<69763, 69807>>, <<69840, 69864>>, <<69891, 69926>>, <<69956, 69956>>, <<69959, 69959>>, <<69968, 70002>>,
      <<70006, 70006>>, <<70019, 70066>>, <<70081, 70084>>, <<70106, 70106>>, <<70108, 70108>>, <<70144, 70161>>,
      <<70163, 70187>>, <<70207, 70208>>, <<70272, 70278>>, <<70280, 70280>>, <<70282, 70285>>, <<70287, 70301>>,
      <<70303, 70312>>, <<70320, 70366>>, <<70405, 70412>>, <<70415, 70416>>, <<70419, 70440>>, <<70442, 70448>>,
      <<70450, 70451>>, <<70453, 70457>>, <<70461, 70461>>, <<70480, 70480>>, <<70493, 70497>>, <<70528, 70537>>,
      <<70539, 70539>>, <<70542, 70542>>, <<70544, 70581>>, <<70583, 70583>>, <<70609, 70609>>, <<70611, 70611>>,
      <<70656, 70708>>, <<70727, 70730>>, <<70751, 70753>>, <<70784, 70831>>, <<70852, 70853>>, <<70855, 70855>>,
      <<71040, 71086>>, <<71128, 71131>>, <<71168, 71215>>, <<71236, 71236>>, <<71296, 71338>>, <<71352, 71352>>,
      <<71424, 71450>>, <<71488, 71494>>, <<71680, 71723>>, <<71840, 71903>>, <<71935, 71942>>, <<71945, 71945>>,
      <<71948, 71955>>, <<71957, 71958>>, <<71960, 71983>>, <<71999, 71999>>, <<72001, 72001>>, <<72096, 72103>>,
      <<72106, 72144>>, <<72161, 72161>>, <<72163, 72163>>, <<72192, 72192>>, <<72203, 72242>>, <<72250, 72250>>,
      <<72272, 72272>>, <<72284, 72329>>, <<72349, 72349>>, <<72368, 72440>>, <<72640, 72672>>, <<72704, 72712>>,
      <<72714, 72750>>, <<72768, 72768>>, <<72818, 72847>>, <<72960, 72966>>, <<72968, 72969>>, <<72971, 73008>>,
      <<73030, 73030>>, <<73056, 73061>>, <<73063, 73064>>, <<73066, 73097>>, <<73112, 73112>>, <<73136, 73179>>,
      <<73440, 73458>>, <<73474, 73474>>, <<73476, 73488>>, <<73490, 73523>>, <<73648, 73648>>, <<73728, 74649>>,
      <<74880, 75075>>, <<77712, 77808>>, <<77824, 78895>>, <<78913, 78918>>, <<78944, 82938>>, <<82944, 83526>>,
      <<90368, 90397>>, <<92160, 92728>>, <<92736, 92766>>, <<92784, 92862>>, <<92880, 92909>>, <<92928, 92975>>,
      <<92992, 92995>>, <<93027, 93047>>, <<93053, 93071>>, <<93504, 93548>>, <<93760, 93823>>, <<93856, 93880>>,
      <<93883, 93907>>, <<93952, 94026>>, <<94032, 94032>>, <<94099, 94111>>, <<94176, 94177>>, <<94179, 94179>>,
      <<94194, 94195>>, <<94208, 101589>>, <<101631, 101662>>, <<101760, 101874>>, <<110576, 110579>>, <<110581, 110587>>,
      <<110589, 110590>>, <<110592, 110882>>, <<110898, 110898>>, <<110928, 110930>>, <<110933, 110933>>, <<110948, 110951>>,
      <<110960, 111355>>, <<113664, 113770>>, <<113776, 113788>>, <<113792, 113800>>, <<113808, 113817>>, <<119808, 119892>>,
      <<119894, 119964>>, <<119966, 119967>>, <<119970, 119970>>, <<119973, 119974>>, <<119977, 119980>>, <<119982, 119993>>,
      <<119995, 119995>>, <<119997, 120003>>, <<120005, 120069>>, <<120071, 120074>>, <<120077, 120084>>, <<120086, 120092>>,
      <<120094, 120121>>, <<120123, 120126>>, <<120128, 120132>>, <<120134, 120134>>, <<120138, 120144>>, <<120146, 120485>>,
      <<120488, 120512>>, <<120514, 120538>>, <<120540, 120570>>, <<120572, 120596>>, <<120598, 120628>>, <<120630, 120654>>,
      <<120656, 120686>>, <<120688, 120712>>, <<120714, 120744>>, <<120746, 120770>>, <<120772, 120779>>, <<122624, 122654>>,
      <<122661, 122666>>, <<122928, 122989>>, <<123136, 123180>>, <<123191, 123197>>, <<123214, 123214>>, <<123536, 123565>>,
      <<123584, 123627>>, <<124112, 124139>>, <<124368, 124397>>, <<124400, 124400>>, <<124608, 124638>>, <<124640, 124642>>,
      <<124644, 124645>>, <<124647, 124653>>, <<124656, 124660>>, <<124670, 124671>>, <<124896, 124902>>, <<124904, 124907>>,
      <<124909, 124910>>, <<124912, 124926>>, <<124928, 125124>>, <<125184, 125251>>, <<125259, 125259>>, <<126464, 126467>>,
      <<126469, 126495>>, <<126497, 126498>>, <<126500, 126500>>, <<126503, 126503>>, <<126505, 126514>>, <<126516, 126519>>,
      <<126521, 126521>>, <<126523, 126523>>, <<126530, 126530>>, <<126535, 126535>>, <<126537, 126537>>, <<126539, 126539>>,
      <<126541, 126543>>, <<126545, 126546>>, <<126548, 126548>>, <<126551, 126551>>, <<126553, 126553>>, <<126555, 126555>>,
      <<126557, 126557>>, <<126559, 126559>>, <<126561, 126562>>, <<126564, 126564>>, <<126567, 126570>>, <<126572, 126578>>,
      <<126580, 126583>>, <<126585, 126588>>, <<126590, 126590>>, <<126592, 126601>>, <<126603, 126619>>, <<126625, 126627>>,
      <<126629, 126633>>, <<126635, 126651>>, <<131072, 173791>>, <<173824, 178205>>, <<178208, 183981>>, <<183984, 191456>>,
      <<191472, 192093>>, <<194560, 195101>>, <<196608, 201546>>, <<201552, 210041>>
    }

\* \p{N}: the code points above 127 of general category N
NumberRanges ==
    {
      <<178, 179>>, <<185, 185>>, <<188, 190>>, <<1632, 1641>>, <<1776, 1785>>, <<1984, 1993>>,
      <<2406, 2415>>, <<2534, 2543>>, <<2548, 2553>>, <<2662, 2671>>, <<2790, 2799>>, <<2918, 2927>>,
      <<2930, 2935>>, <<3046, 3058>>, <<3174, 3183>>, <<3192, 3198>>, <<3302, 3311>>, <<3416, 3422>>,
      <<3430, 3448>>, <<3558, 3567>>, <<3664, 3673>>, <<3792, 3801>>, <<3872, 3891>>, <<4160, 4169>>,
      <<4240, 4249>>, <<4969, 4988>>, <<5870, 5872>>, <<6112, 6121>>, <<6128, 6137>>, <<6160, 6169>>,
      <<6470, 6479>>, <<6608, 6618>>, <<6784, 6793>>, <<6800, 6809>>, <<6992, 7001>>, <<7088, 7097>>,
      <<7232, 7241>>, <<7248, 7257>>, <<8304, 8304>>, <<8308, 8313>>, <<8320, 8329>>, <<8528, 8578>>,
      <<8581, 8585>>, <<9312, 9371>>, <<9450, 9471>>, <<10102, 10131>>, <<11517, 11517>>, <<12295, 12295>>,
      <<12321, 12329>>, <<12344, 12346>>, <<12690, 12693>>, <<12832, 12841>>, <<12872, 12879>>, <<12881, 12895>>,
      <<12928, 12937>>, <<12977, 12991>>, <<42528, 42537>>, <<42726, 42735>>, <<43056, 43061>>, <<43216, 43225>>,
      <<43264, 43273>>, <<43472, 43481>>, <<43504, 43513>>, <<43600, 43609>>, <<44016, 44025>>, <<65296, 65305>>,
      <<65799, 65843>>, <<65856, 65912>>, <<65930, 65931>>, <<66273, 66299>>, <<66336, 66339>>, <<66369, 66369>>,
      <<66378, 66378>>, <<66513, 66517>>, <<66720, 66729>>, <<67672, 67679>>, <<67705, 67711>>, <<67751, 67759>>,
      <<67835, 67839>>, <<67862, 67867>>, <<68028, 68029>>, <<68032, 68047>>, <<68050, 68095>>, <<68160, 68168>>,
      <<68221, 68222>>, <<68253, 68255>>, <<68331, 68335>>, <<68440, 68447>>, <<68472, 68479>>, <<68521, 68527>>,
      <<68858, 68863>>, <<68912, 68921>>, <<68928, 68937>>, <<69216, 69246>>, <<69405, 69414>>, <<69457, 69460>>,
      <<69573, 69579>>, <<69714, 69743>>, <<69872, 69881>>, <<69942, 69951>>, <<70096, 70105>>, <<70113, 70132>>,
      <<70384, 70393>>, <<70736, 70745>>, <<70864, 70873>>, <<71248, 71257>>, <<71360, 71369>>, <<71376, 71395>>,
      <<71472, 71483>>, <<71904, 71922>>, <<72016, 72025>>, <<72688, 72697>>, <<72784, 72812>>, <<73040, 73049>>,
      <<73120, 73129>>, <<73184, 73193>>, <<73552, 73561>>, <<73664, 73684>>, <<74752, 74862>>, <<90416, 90425>>,
      <<92768, 92777>>, <<92864, 92873>>, <<93008, 93017>>, <<93019, 93025>>, <<93552, 93561>>, <<93824, 93846>>,
      <<94196, 94198>>, <<118000, 118009>>, <<119488, 119507>>, <<119520, 119539>>, <<119648, 119672>>, <<120782, 120831>>,
      <<123200, 123209>>, <<123632, 123641>>, <<124144, 124153>>, <<124401, 124410>>, <<125127, 125135>>, <<125264, 125273>>,
      <<126065, 126123>>, <<126125, 126127>>, <<126129, 126132>>, <<126209, 126253>>, <<126255, 126269>>, <<127232, 127244>>,
      <<130032, 130041>>
    }

\* [\p{P}\p{S}]: the code points above 127 of general category P or S
PunctuationSymbolRanges ==
    {
      <<161, 169>>, <<171, 172>>, <<174, 177>>, <<180, 180>>, <<182, 184>>, <<187, 187>>,
      <<191, 191>>, <<215, 215>>, <<247, 247>>, <<706, 709>>, <<722, 735>>, <<741, 747>>,
      <<749, 749>>, <<751, 767>>, <<885, 885>>, <<894, 894>>, <<900, 901>>, <<903, 903>>,
      <<1014, 1014>>, <<1154, 1154>>, <<1370, 1375>>, <<1417, 1418>>, <<1421, 1423>>, <<1470, 1470>>,
      <<1472, 1472>>, <<1475, 1475>>, <<1478, 1478>>, <<1523, 1524>>, <<1542, 1551>>, <<1563, 1563>>,
      <<1565, 1567>>, <<1642, 1645>>, <<1748, 1748>>, <<1758, 1758>>, <<1769, 1769>>, <<1789, 1790>>,
      <<1792, 1805>>, <<2038, 2041>>, <<2046, 2047>>, <<2096, 2110>>, <<2142, 2142>>, <<2184, 2184>>,
      <<2404, 2405>>, <<2416, 2416>>, <<2546, 2547>>, <<2554, 2555>>, <<2557, 2557>>, <<2678, 2678>>,
      <<2800, 2801>>, <<2928, 2928>>, <<3059, 3066>>, <<3191, 3191>>, <<3199, 3199>>, <<3204, 3204>>,
      <<3407, 3407>>, <<3449, 3449>>, <<3572, 3572>>, <<3647, 3647>>, <<3663, 3663>>, <<3674, 3675>>,
      <<3841, 3863>>, <<3866, 3871>>, <<3892, 3892>>, <<3894, 3894>>, <<3896, 3896>>, <<3898, 3901>>,
      <<3973, 3973>>, <<4030, 4037>>, <<4039, 4044>>, <<4046, 4058>>, <<4170, 4175>>, <<4254, 4255>>,
      <<4347, 4347>>, <<4960, 4968>>, <<5008, 5017>>, <<5120, 5120>>, <<5741, 5742>>, <<5787, 5788>>,
      <<5867, 5869>>, <<5941, 5942>>, <<6100, 6102>>, <<6104, 6107>>, <<6144, 6154>>, <<6464, 6464>>,
      <<6468, 6469>>, <<6622, 6655>>, <<6686, 6687>>, <<6816, 6822>>, <<6824, 6829>>, <<6990, 6991>>,
      <<7002, 7018>>, <<7028, 7039>>, <<7164, 7167>>, <<7227, 7231>>, <<7294, 7295>>, <<7360, 7367>>,
      <<7379, 7379>>, <<8125, 8125>>, <<8127, 8129>>, <<8141, 8143>>, <<8157, 8159>>, <<8173, 8175>>,
      <<8189, 8190>>, <<8208, 8231>>, <<8240, 8286>>, <<8314, 8318>>, <<8330, 8334>>, <<8352, 8385>>,
      <<8448, 8449>>, <<8451, 8454>>, <<8456, 8457>>, <<8468, 8468>>, <<8470, 8472>>, <<8478, 8483>>,
      <<8485, 8485>>, <<8487, 8487>>, <<8489, 8489>>, <<8494, 8494>>, <<8506, 8507>>, <<8512, 8516>>,
      <<8522, 8525>>, <<8527, 8527>>, <<8586, 8587>>, <<8592, 9257>>, <<9280, 9290>>, <<9372, 9449>>,
      <<9472, 10101>>, <<10132, 11123>>, <<11126, 11263>>, <<11493, 11498>>, <<11513, 11516>>, <<11518, 11519>>,
      <<11632, 11632>>, <<11776, 11822>>, <<11824, 11869>>, <<11904, 11929>>, <<11931, 12019>>, <<12032, 12245>>,
      <<12272, 12287>>, <<12289, 12292>>, <<12296, 12320>>, <<12336, 12336>>, <<12342, 12343>>, <<12349, 12351>>,
      <<12443, 12444>>, <<12448, 12448>>, <<12539, 12539>>, <<12688, 12689>>, <<12694, 12703>>, <<12736, 12773>>,
      <<12783, 12783>>, <<12800, 12830>>, <<12842, 12871>>, <<12880, 12880>>, <<12896, 12927>>, <<12938, 12976>>,
      <<12992, 13311>>, <<19904, 19967>>, <<42128, 42182>>, <<42238, 42239>>, <<42509, 42511>>, <<42611, 42611>>,
      <<42622, 42622>>, <<42738, 42743>>, <<42752, 42774>>, <<42784, 42785>>, <<42889, 42890>>, <<43048, 43051>>,
      <<43062, 43065>>, <<43124, 43127>>, <<43214, 43215>>, <<43256, 43258>>, <<43260, 43260>>, <<43310, 43311>>,
      <<43359, 43359>>, <<43457, 43469>>, <<43486, 43487>>, <<43612, 43615>>, <<43639, 43641>>, <<43742, 43743>>,
      <<43760, 43761>>, <<43867, 43867>>, <<43882, 43883>>, <<44011, 44011>>, <<64297, 64297>>, <<64434, 64466>>,
      <<64830, 64847>>, <<64912, 64913>>, <<64968, 64975>>, <<65020, 65023>>, <<65040, 65049>>, <<65072, 65106>>,
      <<65108, 65126>>, <<65128, 65131>>, <<65281, 65295>>, <<65306, 65312>>, <<65339, 65344>>, <<65371, 65381>>,
      <<65504, 65510>>, <<65512, 65518>>, <<65532, 65533>>, <<65792, 65794>>, <<65847, 65855>>, <<65913, 65929>>,
      <<65932, 65934>>, <<65936, 65948>>, <<65952, 65952>>, <<66000, 66044>>, <<66463, 66463>>, <<66512, 66512>>,
      <<66927, 66927>>, <<67671, 67671>>, <<67703, 67704>>, <<67871, 67871>>, <<67903, 67903>>, <<68176, 68184>>,
      <<68223, 68223>>, <<68296, 68296>>, <<68336, 68342>>, <<68409, 68415>>, <<68505, 68508>>, <<68974, 68974>>,
      <<69006, 69007>>, <<69293, 69293>>, <<69328, 69336>>, <<69461, 69465>>, <<69510, 69513>>, <<69703, 69709>>,
      <<69819, 69820>>, <<69822, 69825>>, <<69952, 69955>>, <<70004, 70005>>, <<70085, 70088>>, <<70093, 70093>>,
      <<70107, 70107>>, <<70109, 70111>>, <<70200, 70205>>, <<70313, 70313>>, <<70612, 70613>>, <<70615, 70616>>,
      <<70731, 70735>>, <<70746, 70747>>, <<70749, 70749>>, <<70854, 70854>>, <<71105, 71127>>, <<71233, 71235>>,
      <<71264, 71276>>, <<71353, 71353>>, <<71484, 71487>>, <<71739, 71739>>, <<72004, 72006>>, <<72162, 72162>>,
      <<72255, 72262>>, <<72346, 72348>>, <<72350, 72354>>, <<72448, 72457>>, <<72673, 72673>>, <<72769, 72773>>,
      <<72816, 72817>>, <<73463, 73464>>, <<73539, 73551>>, <<73685, 73713>>, <<73727, 73727>>, <<74864, 74868>>,
      <<77809, 77810>>, <<92782, 92783>>, <<92917, 92917>>, <<92983, 92991>>, <<92996, 92997>>, <<93549, 93551>>,
      <<93847, 93850>>, <<94178, 94178>>, <<113820, 113820>>, <<113823, 113823>>, <<117760, 117999>>, <<118010, 118012>>,
      <<118016, 118451>>, <<118458, 118480>>, <<118496, 118512>>, <<118608, 118723>>, <<118784, 119029>>, <<119040, 119078>>,
      <<119081, 119140>>, <<119146, 119148>>, <<119171, 119172>>, <<119180, 119209>>, <<119214, 119274>>, <<119296, 119361>>,
      <<119365, 119365>>, <<119552, 119638>>, <<120513, 120513>>, <<120539, 120539>>, <<120571, 120571>>, <<120597, 120597>>,
      <<120629, 120629>>, <<120655, 120655>>, <<120687, 120687>>, <<120713, 120713>>, <<120745, 120745>>, <<120771, 120771>>,
      <<120832, 121343>>, <<121399, 121402>>, <<121453, 121460>>, <<121462, 121475>>, <<121477, 121483>>, <<123215, 123215>>,
      <<123647, 123647>>, <<124415, 124415>>, <<125278, 125279>>, <<126124, 126124>>, <<126128, 126128>>, <<126254, 126254>>,
      <<126704, 126705>>, <<126976, 127019>>, <<127024, 127123>>, <<127136, 127150>>, <<127153, 127167>>, <<127169, 127183>>,
      <<127185, 127221>>, <<127245, 127405>>, <<127462, 127490>>, <<127504, 127547>>, <<127552, 127560>>, <<127568, 127569>>,
      <<127584, 127589>>, <<127744, 128728>>, <<128732, 128748>>, <<128752, 128764>>, <<128768, 128985>>, <<128992, 129003>>,
      <<129008, 129008>>, <<129024, 129035>>, <<129040, 129095>>, <<129104, 129113>>, <<129120, 129159>>, <<129168, 129197>>,
      <<129200, 129211>>, <<129216, 129217>>, <<129232, 129240>>, <<129280, 129623>>, <<129632, 129645>>, <<129648, 129660>>,
      <<129664, 129674>>, <<129678, 129734>>, <<129736, 129736>>, <<129741, 129756>>, <<129759, 129770>>, <<129775, 129784>>,
      <<129792, 129938>>, <<129940, 130031>>, <<130042, 130042>>
    }

\* toLowerCase: <<first, last, step, d>> maps first, first + step, ..., last
\* to themselves plus d
LowerCaseRuns ==
    {
      <<192, 214, 1, 32>>, <<216, 222, 1, 32>>, <<256, 302, 2, 1>>, <<306, 310, 2, 1>>,
      <<313, 327, 2, 1>>, <<330, 374, 2, 1>>, <<376, 376, 1, -121>>, <<377, 381, 2, 1>>,
      <<385, 385, 1, 210>>, <<386, 388, 2, 1>>, <<390, 390, 1, 206>>, <<391, 391, 1, 1>>,
      <<393, 394, 1, 205>>, <<395, 395, 1, 1>>, <<398, 398, 1, 79>>, <<399, 399, 1, 202>>,
      <<400, 400, 1, 203>>, <<401, 401, 1, 1>>, <<403, 403, 1, 205>>, <<404, 404, 1, 207>>,
      <<406, 406, 1, 211>>, <<407, 407, 1, 209>>, <<408, 408, 1, 1>>, <<412, 412, 1, 211>>,
      <<413, 413, 1, 213>>, <<415, 415, 1, 214>>, <<416, 420, 2, 1>>, <<422, 422, 1, 218>>,
      <<423, 423, 1, 1>>, <<425, 425, 1, 218>>, <<428, 428, 1, 1>>, <<430, 430, 1, 218>>,
      <<431, 431, 1, 1>>, <<433, 434, 1, 217>>, <<435, 437, 2, 1>>, <<439, 439, 1, 219>>,
      <<440, 440, 1, 1>>, <<444, 444, 1, 1>>, <<452, 452, 1, 2>>, <<453, 453, 1, 1>>,
      <<455, 455, 1, 2>>, <<456, 456, 1, 1>>, <<458, 458, 1, 2>>, <<459, 475, 2, 1>>,
      <<478, 494, 2, 1>>, <<497, 497, 1, 2>>, <<498, 500, 2, 1>>, <<502, 502, 1, -97>>,
      <<503, 503, 1, -56>>, <<504, 542, 2, 1>>, <<544, 544, 1, -130>>, <<546, 562, 2, 1>>,
      <<570, 570, 1, 10795>>, <<571, 571, 1, 1>>, <<573, 573, 1, -163>>, <<574, 574, 1, 10792>>,
      <<577, 577, 1, 1>>, <<579, 579, 1, -195>>, <<580, 580, 1, 69>>, <<581, 581, 1, 71>>,
      <<582, 590, 2, 1>>, <<880, 882, 2, 1>>, <<886, 886, 1, 1>>, <<895, 895, 1, 116>>,
      <<902, 902, 1, 38>>, <<904, 906, 1, 37>>, <<908, 908, 1, 64>>, <<910, 911, 1, 63>>,
      <<913, 929, 1, 32>>, <<931, 939, 1, 32>>, <<975, 975, 1, 8>>, <<984, 1006, 2, 1>>,
      <<1012, 1012, 1, -60>>, <<1015, 1015, 1, 1>>, <<1017, 1017, 1, -7>>, <<1018, 1018, 1, 1>>,
      <<1021, 1023, 1, -130>>, <<1024, 1039, 1, 80>>, <<1040, 1071, 1, 32>>, <<1120, 1152, 2, 1>>,
      <<1162, 1214, 2, 1>>, <<1216, 1216, 1, 15>>, <<1217, 1229, 2, 1>>, <<1232, 1326, 2, 1>>,
      <<1329, 1366, 1, 48>>, <<4256, 4293, 1, 7264>>, <<4295, 4295, 1, 7264>>, <<4301, 4301, 1, 7264>>,
      <<5024, 5103, 1, 38864>>, <<5104, 5109, 1, 8>>, <<7305, 7305, 1, 1>>, <<7312, 7354, 1, -3008>>,
      <<7357, 7359, 1, -3008>>, <<7680, 7828, 2, 1>>, <<7838, 7838, 1, -7615>>, <<7840, 7934, 2, 1>>,
      <<7944, 7951, 1, -8>>, <<7960, 7965, 1, -8>>, <<7976, 7983, 1, -8>>, <<7992, 7999, 1, -8>>,
      <<8008, 8013, 1, -8>>, <<8025, 8031, 2, -8>>, <<8040, 8047, 1, -8>>, <<8072, 8079, 1, -8>>,
      <<8088, 8095, 1, -8>>, <<8104, 8111, 1, -8>>, <<8120, 8121, 1, -8>>, <<8122, 8123, 1, -74>>,
      <<8124, 8124, 1, -9>>, <<8136, 8139, 1, -86>>, <<8140, 8140, 1, -9>>, <<8152, 8153, 1, -8>>,
      <<8154, 8155, 1, -100>>, <<8168, 8169, 1, -8>>, <<8170, 8171, 1, -112>>, <<8172, 8172, 1, -7>>,
      <<8184, 8185, 1, -128>>, <<8186, 8187, 1, -126>>, <<8188, 8188, 1, -9>>, <<8486, 8486, 1, -7517>>,
      <<8490, 8490, 1, -8383>>, <<8491, 8491, 1, -8262>>, <<8498, 8498, 1, 28>>, <<8544, 8559, 1, 16>>,
      <<8579, 8579, 1, 1>>, <<9398, 9423, 1, 26>>, <<11264, 11311, 1, 48>>, <<11360, 11360, 1, 1>>,
      <<11362, 11362, 1, -10743>>, <<11363, 11363, 1, -3814>>, <<11364, 11364, 1, -10727>>, <<11367, 11371, 2, 1>>,
      <<11373, 11373, 1, -10780>>, <<11374, 11374, 1, -10749>>, <<11375, 11375, 1, -10783>>, <<11376, 11376, 1, -10782>>,
      <<11378, 11378, 1, 1>>, <<11381, 11381, 1, 1>>, <<11390, 11391, 1, -10815>>, <<11392, 11490, 2, 1>>,
      <<11499, 11501, 2, 1>>, <<11506, 11506, 1, 1>>, <<42560, 42604, 2, 1>>, <<42624, 42650, 2, 1>>,
      <<42786, 42798, 2, 1>>, <<42802, 42862, 2, 1>>, <<42873, 42875, 2, 1>>, <<42877, 42877, 1, -35332>>,
      <<42878, 42886, 2, 1>>, <<42891, 42891, 1, 1>>, <<42893, 42893, 1, -42280>>, <<42896, 42898, 2, 1>>,
      <<42902, 42920, 2, 1>>, <<42922, 42922, 1, -42308>>, <<42923, 42923, 1, -42319>>, <<42924, 42924, 1, -42315>>,
      <<42925, 42925, 1, -42305>>, <<42926, 42926, 1, -42308>>, <<42928, 42928, 1, -42258>>, <<42929, 42929, 1, -42282>>,
      <<42930, 42930, 1, -42261>>, <<42931, 42931, 1, 928>>, <<42932, 42946, 2, 1>>, <<42948, 42948, 1, -48>>,
      <<42949, 42949, 1, -42307>>, <<42950, 42950, 1, -35384>>, <<42951, 42953, 2, 1>>, <<42955, 42955, 1, -42343>>,
      <<42956, 42970, 2, 1>>, <<42972, 42972, 1, -42561>>, <<42997, 42997, 1, 1>>, <<65313, 65338, 1, 32>>,
      <<66560, 66599, 1, 40>>, <<66736, 66771, 1, 40>>, <<66928, 66938, 1, 39>>, <<66940, 66954, 1, 39>>,
      <<66956, 66962, 1, 39>>, <<66964, 66965, 1, 39>>, <<68736, 68786, 1, 64>>, <<68944, 68965, 1, 32>>,
      <<71840, 71871, 1, 32>>, <<93760, 93791, 1, 32>>, <<93856, 93880, 1, 27>>, <<125184, 125217, 1, 34>>
    }

\* the cased code points that are not case-ignorable
CasedRanges ==
    {
      <<65, 90>>, <<97, 122>>, <<170, 170>>, <<181, 181>>, <<186, 186>>, <<192, 214>>,
      <<216, 246>>, <<248, 442>>, <<444, 447>>, <<452, 659>>, <<662, 687>>, <<880, 883>>,
      <<886, 887>>, <<891, 893>>, <<895, 895>>, <<902, 902>>, <<904, 906>>, <<908, 908>>,
      <<910, 929>>, <<931, 1013>>, <<1015, 1153>>, <<1162, 1327>>, <<1329, 1366>>, <<1376, 1416>>,
      <<4256, 4293>>, <<4295, 4295>>, <<4301, 4301>>, <<4304, 4346>>, <<4349, 4351>>, <<5024, 5109>>,
      <<5112, 5117>>, <<7296, 7306>>, <<7312, 7354>>, <<7357, 7359>>, <<7424, 7467>>, <<7531, 7543>>,
      <<7545, 7578>>, <<7680, 7957>>, <<7960, 7965>>, <<7968, 8005>>, <<8008, 8013>>, <<8016, 8023>>,
      <<8025, 8025>>, <<8027, 8027>>, <<8029, 8029>>, <<8031, 8061>>, <<8064, 8116>>, <<8118, 8124>>,
      <<8126, 8126>>, <<8130, 8132>>, <<8134, 8140>>, <<8144, 8147>>, <<8150, 8155>>, <<8160, 8172>>,
      <<8178, 8180>>, <<8182, 8188>>, <<8450, 8450>>, <<8455, 8455>>, <<8458, 8467>>, <<8469, 8469>>,
      <<8473, 8477>>, <<8484, 8484>>, <<8486, 8486>>, <<8488, 8488>>, <<8490, 8493>>, <<8495, 8500>>,
      <<8505, 8505>>, <<8508, 8511>>, <<8517, 8521>>, <<8526, 8526>>, <<8544, 8575>>, <<8579, 8580>>,
      <<9398, 9449>>, <<11264, 11387>>, <<11390, 11492>>, <<11499, 11502>>, <<11506, 11507>>, <<11520, 11557>>,
      <<11559, 11559>>, <<11565, 11565>>, <<42560, 42605>>, <<42624, 42651>>, <<42786, 42863>>, <<42865, 42887>>,
      <<42891, 42894>>, <<42896, 42972>>, <<42997, 42998>>, <<43002, 43002>>, <<43824, 43866>>, <<43872, 43880>>,
      <<43888, 43967>>, <<64256, 64262>>, <<64275, 64279>>, <<65313, 65338>>, <<65345, 65370>>, <<66560, 66639>>,
      <<66736, 66771>>, <<66776, 66811>>, <<66928, 66938>>, <<66940, 66954>>, <<66956, 66962>>, <<66964, 66965>>,
      <<66967, 66977>>, <<66979, 66993>>, <<66995, 67001>>, <<67003, 67004>>, <<68736, 68786>>, <<68800, 68850>>,
      <<68944, 68965>>, <<68976, 68997>>, <<71840, 71903>>, <<93760, 93823>>, <<93856, 93880>>, <<93883, 93907>>,
      <<119808, 119892>>, <<119894, 119964>>, <<119966, 119967>>, <<119970, 119970>>, <<119973, 119974>>, <<119977, 119980>>,
      <<119982, 119993>>, <<119995, 119995>>, <<119997, 120003>>, <<120005, 120069>>, <<120071, 120074>>, <<120077, 120084>>,
      <<120086, 120092>>, <<120094, 120121>>, <<120123, 120126>>, <<120128, 120132>>, <<120134, 120134>>, <<120138, 120144>>,
      <<120146, 120485>>, <<120488, 120512>>, <<120514, 120538>>, <<120540, 120570>>, <<120572, 120596>>, <<120598, 120628>>,
      <<120630, 120654>>, <<120656, 120686>>, <<120688, 120712>>, <<120714, 120744>>, <<120746, 120770>>, <<120772, 120779>>,
      <<122624, 122633>>, <<122635, 122654>>, <<122661, 122666>>, <<125184, 125251>>, <<127280, 127305>>, <<127312, 127337>>,
      <<127344, 127369>>
    }

\* the case-ignorable code points
CaseIgnorableRanges ==
    {
      <<39, 39>>, <<46, 46>>, <<58, 58>>, <<94, 94>>, <<96, 96>>, <<168, 168>>,
      <<173, 173>>, <<175, 175>>, <<180, 180>>, <<183, 184>>, <<688, 879>>, <<884, 885>>,
      <<890, 890>>, <<900, 901>>, <<903, 903>>, <<1155, 1161>>, <<1369, 1369>>, <<1375, 1375>>,
      <<1425, 1469>>, <<1471, 1471>>, <<1473, 1474>>, <<1476, 1477>>, <<1479, 1479>>, <<1524, 1524>>,
      <<1536, 1541>>, <<1552, 1562>>, <<1564, 1564>>, <<1600, 1600>>, <<1611, 1631>>, <<1648, 1648>>,
      <<1750, 1757>>, <<1759, 1768>>, <<1770, 1773>>, <<1807, 1807>>, <<1809, 1809>>, <<1840, 1866>>,
      <<1958, 1968>>, <<2027, 2037>>, <<2042, 2042>>, <<2045, 2045>>, <<2070, 2093>>, <<2137, 2139>>,
      <<2184, 2184>>, <<2192, 2193>>, <<2199, 2207>>, <<2249, 2306>>, <<2362, 2362>>, <<2364, 2364>>,
      <<2369, 2376>>, <<2381, 2381>>, <<2385, 2391>>, <<2402, 2403>>, <<2417, 2417>>, <<2433, 2433>>,
      <<2492, 2492>>, <<2497, 2500>>, <<2509, 2509>>, <<2530, 2531>>, <<2558, 2558>>, <<2561, 2562>>,
      <<2620, 2620>>, <<2625, 2626>>, <<2631, 2632>>, <<2635, 2637>>, <<2641, 2641>>, <<2672, 2673>>,
      <<2677, 2677>>, <<2689, 2690>>, <<2748, 2748>>, <<2753, 2757>>, <<2759, 2760>>, <<2765, 2765>>,
      <<2786, 2787>>, <<2810, 2815>>, <<2817, 2817>>, <<2876, 2876>>, <<2879, 2879>>, <<2881, 2884>>,
      <<2893, 2893>>, <<2901, 2902>>, <<2914, 2915>>, <<2946, 2946>>, <<3008, 3008>>, <<3021, 3021>>,
      <<3072, 3072>>, <<3076, 3076>>, <<3132, 3132>>, <<3134, 3136>>, <<3142, 3144>>, <<3146, 3149>>,
      <<3157, 3158>>, <<3170, 3171>>, <<3201, 3201>>, <<3260, 3260>>, <<3263, 3263>>, <<3270, 3270>>,
      <<3276, 3277>>, <<3298, 3299>>, <<3328, 3329>>, <<3387, 3388>>, <<3393, 3396>>, <<3405, 3405>>,
      <<3426, 3427>>, <<3457, 3457>>, <<3530, 3530>>, <<3538, 3540>>, <<3542, 3542>>, <<3633, 3633>>,
      <<3636, 3642>>, <<3654, 3662>>, <<3761, 3761>>, <<3764, 3772>>, <<3782, 3782>>, <<3784, 3790>>,
      <<3864, 3865>>, <<3893, 3893>>, <<3895, 3895>>, <<3897, 3897>>, <<3953, 3966>>, <<3968, 3972>>,
      <<3974, 3975>>, <<3981, 3991>>, <<3993, 4028>>, <<4038, 4038>>, <<4141, 4144>>, <<4146, 4151>>,
      <<4153, 4154>>, <<4157, 4158>>, <<4184, 4185>>, <<4190, 4192>>, <<4209, 4212>>, <<4226, 4226>>,
      <<4229, 4230>>, <<4237, 4237>>, <<4253, 4253>>, <<4348, 4348>>, <<4957, 4959>>, <<5906, 5908>>,
      <<5938, 5939>>, <<5970, 5971>>, <<6002, 6003>>, <<6068, 6069>>, <<6071, 6077>>, <<6086, 6086>>,
      <<6089, 6099>>, <<6103, 6103>>, <<6109, 6109>>, <<6155, 6159>>, <<6211, 6211>>, <<6277, 6278>>,
      <<6313, 6313>>, <<6432, 6434>>, <<6439, 6440>>, <<6450, 6450>>, <<6457, 6459>>, <<6679, 6680>>,
      <<6683, 6683>>, <<6742, 6742>>, <<6744, 6750>>, <<6752, 6752>>, <<6754, 6754>>, <<6757, 6764>>,
      <<6771, 6780>>, <<6783, 6783>>, <<6823, 6823>>, <<6832, 6877>>, <<6880, 6891>>, <<6912, 6915>>,
      <<6964, 6964>>, <<6966, 6970>>, <<6972, 6972>>, <<6978, 6978>>, <<7019, 7027>>, <<7040, 7041>>,
      <<7074, 7077>>, <<7080, 7081>>, <<7083, 7085>>, <<7142, 7142>>, <<7144, 7145>>, <<7149, 7149>>,
      <<7151, 7153>>, <<7212, 7219>>, <<7222, 7223>>, <<7288, 7293>>, <<7376, 7378>>, <<7380, 7392>>,
      <<7394, 7400>>, <<7405, 7405>>, <<7412, 7412>>, <<7416, 7417>>, <<7468, 7530>>, <<7544, 7544>>,
      <<7579, 7679>>, <<8125, 8125>>, <<8127, 8129>>, <<8141, 8143>>, <<8157, 8159>>, <<8173, 8175>>,
      <<8189, 8190>>, <<8203, 8207>>, <<8216, 8217>>, <<8228, 8228>>, <<8231, 8231>>, <<8234, 8238>>,
      <<8288, 8292>>, <<8294, 8303>>, <<8305, 8305>>, <<8319, 8319>>, <<8336, 8348>>, <<8400, 8432>>,
      <<11388, 11389>>, <<11503, 11505>>, <<11631, 11631>>, <<11647, 11647>>, <<11744, 11775>>, <<11823, 11823>>,
      <<12293, 12293>>, <<12330, 12333>>, <<12337, 12341>>, <<12347, 12347>>, <<12441, 12446>>, <<12540, 12542>>,
      <<40981, 40981>>, <<42232, 42237>>, <<42508, 42508>>, <<42607, 42610>>, <<42612, 42621>>, <<42623, 42623>>,
      <<42652, 42655>>, <<42736, 42737>>, <<42752, 42785>>, <<42864, 42864>>, <<42888, 42890>>, <<42993, 42996>>,
      <<43000, 43001>>, <<43010, 43010>>, <<43014, 43014>>, <<43019, 43019>>, <<43045, 43046>>, <<43052, 43052>>,
      <<43204, 43205>>, <<43232, 43249>>, <<43263, 43263>>, <<43302, 43309>>, <<43335, 43345>>, <<43392, 43394>>,
      <<43443, 43443>>, <<43446, 43449>>, <<43452, 43453>>, <<43471, 43471>>, <<43493, 43494>>, <<43561, 43566>>,
      <<43569, 43570>>, <<43573, 43574>>, <<43587, 43587>>, <<43596, 43596>>, <<43632, 43632>>, <<43644, 43644>>,
      <<43696, 43696>>, <<43698, 43700>>, <<43703, 43704>>, <<43710, 43711>>, <<43713, 43713>>, <<43741, 43741>>,
      <<43756, 43757>>, <<43763, 43764>>, <<43766, 43766>>, <<43867, 43871>>, <<43881, 43883>>, <<44005, 44005>>,
      <<44008, 44008>>, <<44013, 44013>>, <<64286, 64286>>, <<64434, 64450>>, <<65024, 65039>>, <<65043, 65043>>,
      <<65056, 65071>>, <<65106, 65106>>, <<65109, 65109>>, <<65279, 65279>>, <<65287, 65287>>, <<65294, 65294>>,
      <<65306, 65306>>, <<65342, 65342>>, <<65344, 65344>>, <<65392, 65392>>, <<65438, 65439>>, <<65507, 65507>>,
      <<65529, 65531>>, <<66045, 66045>>, <<66272, 66272>>, <<66422, 66426>>, <<67456, 67461>>, <<67463, 67504>>,
      <<67506, 67514>>, <<68097, 68099>>, <<68101, 68102>>, <<68108, 68111>>, <<68152, 68154>>, <<68159, 68159>>,
      <<68325, 68326>>, <<68900, 68903>>, <<68942, 68942>>, <<68969, 68973>>, <<68975, 68975>>, <<69291, 69292>>,
      <<69317, 69317>>, <<69370, 69375>>, <<69446, 69456>>, <<69506, 69509>>, <<69633, 69633>>, <<69688, 69702>>,
      <<69744, 69744>>, <<69747, 69748>>, <<69759, 69761>>, <<69811, 69814>>, <<69817, 69818>>, <<69821, 69821>>,
      <<69826, 69826>>, <<69837, 69837>>, <<69888, 69890>>, <<69927, 69931>>, <<69933, 69940>>, <<70003, 70003>>,
      <<70016, 70017>>, <<70070, 70078>>, <<70089, 70092>>, <<70095, 70095>>, <<70191, 70193>>, <<70196, 70196>>,
      <<70198, 70199>>, <<70206, 70206>>, <<70209, 70209>>, <<70367, 70367>>, <<70371, 70378>>, <<70400, 70401>>,
      <<70459, 70460>>, <<70464, 70464>>, <<70502, 70508>>, <<70512, 70516>>, <<70587, 70592>>, <<70606, 70606>>,
      <<70608, 70608>>, <<70610, 70610>>, <<70625, 70626>>, <<70712, 70719>>, <<70722, 70724>>, <<70726, 70726>>,
      <<70750, 70750>>, <<70835, 70840>>, <<70842, 70842>>, <<70847, 70848>>, <<70850, 70851>>, <<71090, 71093>>,
      <<71100, 71101>>, <<71103, 71104>>, <<71132, 71133>>, <<71219, 71226>>, <<71229, 71229>>, <<71231, 71232>>,
      <<71339, 71339>>, <<71341, 71341>>, <<71344, 71349>>, <<71351, 71351>>, <<71453, 71453>>, <<71455, 71455>>,
      <<71458, 71461>>, <<71463, 71467>>, <<71727, 71735>>, <<71737, 71738>>, <<71995, 71996>>, <<71998, 71998>>,
      <<72003, 72003>>, <<72148, 72151>>, <<72154, 72155>>, <<72160, 72160>>, <<72193, 72202>>, <<72243, 72248>>,
      <<72251, 72254>>, <<72263, 72263>>, <<72273, 72278>>, <<72281, 72283>>, <<72330, 72342>>, <<72344, 72345>>,
      <<72544, 72544>>, <<72546, 72548>>, <<72550, 72550>>, <<72752, 72758>>, <<72760, 72765>>, <<72767, 72767>>,
      <<72850, 72871>>, <<72874, 72880>>, <<72882, 72883>>, <<72885, 72886>>, <<73009, 73014>>, <<73018, 73018>>,
      <<73020, 73021>>, <<73023, 73029>>, <<73031, 73031>>, <<73104, 73105>>, <<73109, 73109>>, <<73111, 73111>>,
      <<73177, 73177>>, <<73459, 73460>>, <<73472, 73473>>, <<73526, 73530>>, <<73536, 73536>>, <<73538, 73538>>,
      <<73562, 73562>>, <<78896, 78912>>, <<78919, 78933>>, <<90398, 90409>>, <<90413, 90415>>, <<92912, 92916>>,
      <<92976, 92982>>, <<92992, 92995>>, <<93504, 93506>>, <<93547, 93548>>, <<94031, 94031>>, <<94095, 94111>>,
      <<94176, 94177>>, <<94179, 94180>>, <<94194, 94195>>, <<110576, 110579>>, <<110581, 110587>>, <<110589, 110590>>,
      <<113821, 113822>>, <<113824, 113827>>, <<118528, 118573>>, <<118576, 118598>>, <<119143, 119145>>, <<119155, 119170>>,
      <<119173, 119179>>, <<119210, 119213>>, <<119362, 119364>>, <<121344, 121398>>, <<121403, 121452>>, <<121461, 121461>>,
      <<121476, 121476>>, <<121499, 121503>>, <<121505, 121519>>, <<122880, 122886>>, <<122888, 122904>>, <<122907, 122913>>,
      <<122915, 122916>>, <<122918, 122922>>, <<122928, 122989>>, <<123023, 123023>>, <<123184, 123197>>, <<123566, 123566>>,
      <<123628, 123631>>, <<124139, 124143>>, <<124398, 124399>>, <<124643, 124643>>, <<124646, 124646>>, <<124654, 124655>>,
      <<124661, 124661>>, <<124671, 124671>>, <<125136, 125142>>, <<125252, 125259>>, <<127995, 127999>>, <<917505, 917505>>,
      <<917536, 917631>>, <<917760, 917999>>
    }

\* \p{L} on a code point
IsLetter(cp) ==
    IF cp < 128 THEN (cp >= 65 /\ cp <= 90) \/ (cp >= 97 /\ cp <= 122)
    ELSE InRanges(cp, LetterRanges)

\* \p{N} on a code point
IsNumber(cp) == IF cp < 128 THEN IsDigit(cp) ELSE InRanges(cp, NumberRanges)

\* [\p{L}\p{N}] on a code point
IsAlnum(cp) == IsLetter(cp) \/ IsNumber(cp)

\* [\p{P}\p{S}] on a code point
IsPunctOrSymbol(cp) ==
    IF cp < 128
    THEN \/ (cp >= 33 /\ cp <= 47) \/ (cp >= 58 /\ cp <= 64)
         \/ (cp >= 91 /\ cp <= 96) \/ (cp >= 123 /\ cp <= 126)
    ELSE InRanges(cp, PunctuationSymbolRanges)

IsCased(cp) == InRanges(cp, CasedRanges)
IsCaseIgnorable(cp) == InRanges(cp, CaseIgnorableRanges)

\* the lower case of one code point, context apart
LowerOf(cp) ==
    IF cp < 128 THEN (IF cp >= 65 /\ cp <= 90 THEN <<cp + 32>> ELSE <<cp>>)
    ELSE IF cp = 304 THEN <<105, 775>>
    ELSE LET runs == {r \in LowerCaseRuns :
                        r[1] <= cp /\ cp <= r[2] /\ (cp - r[1]) % r[3] = 0}
         IN  IF runs = {} THEN CodeUnits(cp)
             ELSE CodeUnits(cp + (CHOOSE r \in runs : TRUE)[4])

\* the final sigma rule: a cased letter comes before position j of s, case-
\* ignorable characters apart
RECURSIVE CasedBefore(_, _)
CasedBefore(s, j) ==
    IF j < 1 THEN FALSE
    ELSE LET k == IF j >= 2 /\ IsPair(s, j - 1) THEN j - 1 ELSE j
             cp == CodePointAt(s, k)
         IN  IF IsCaseIgnorable(cp) THEN CasedBefore(s, k - 1) ELSE IsCased(cp)

\* a cased letter comes from position j of s on, case-ignorable characters apart
RECURSIVE CasedAfter(_, _)
CasedAfter(s, j) ==
    IF j > Len(s) THEN FALSE
    ELSE LET cp == CodePointAt(s, j)
         IN  IF IsCaseIgnorable(cp) THEN CasedAfter(s, j + CodePointLength(s, j))
             ELSE IsCased(cp)

RECURSIVE LowerFrom(_, _)
LowerFrom(s, i) ==
    IF i > Len(s) THEN <<>>
    ELSE LET cp == CodePointAt(s, i)
         IN  (IF cp = 931
              THEN (IF CasedBefore(s, i - 1) /\ ~CasedAfter(s, i + 1) THEN <<962>> ELSE <<963>>)
              ELSE LowerOf(cp))
             \o LowerFrom(s, i + CodePointLength(s, i))

\* String.prototype.toLowerCase
toLowerCase(s) == LowerFrom(s, 1)

----------------------------------------------------------------------------
(* Strings *)

Max(a, b) == IF a >= b THEN a ELSE b

Last(s) == s[Len(s)]

\* number of leading characters of s, from position i, that satisfy the class
RECURSIVE SpanSpace(_, _)
SpanSpace(s, i) == IF i <= Len(s) /\ IsSpace(s[i]) THEN 1 + SpanSpace(s, i + 1) ELSE 0

RECURSIVE SpanDigit(_, _)
SpanDigit(s, i) == IF i <= Len(s) /\ IsDigit(s[i]) THEN 1 + SpanDigit(s, i + 1) ELSE 0

RECURSIVE SpanChar(_, _, _)
SpanChar(s, i, c) == IF i <= Len(s) /\ s[i] = c THEN 1 + SpanChar(s, i + 1, c) ELSE 0

RECURSIVE TrimEnd(_)
TrimEnd(s) == IF s # <<>> /\ IsSpace(Last(s)) THEN TrimEnd(SubSeq(s, 1, Len(s) - 1)) ELSE s

TrimStart(s) == SubSeq(s, SpanSpace(s, 1) + 1, Len(s))

\* String.prototype.trim
Trim(s) == TrimEnd(TrimStart(s))

\* Array.prototype.join
RECURSIVE JoinWith(_, _)
JoinWith(ls, sep) ==
    IF ls = <<>> THEN <<>>
    ELSE IF Len(ls) = 1 THEN ls[1]
    ELSE ls[1] \o sep \o JoinWith(Tail(ls), sep)

\* String.prototype.split("\n"): the empty string splits into one empty line
RECURSIVE SplitFrom(_, _)
SplitFrom(s, i) ==
    LET breaks == {j \in i..Len(s) : s[j] = NL}
    IN  IF breaks = {} THEN <<SubSeq(s, i, Len(s))>>
        ELSE LET j == CHOOSE b \in breaks : \A c \in breaks : b <= c
             IN  <<SubSeq(s, i, j - 1)>> \o SplitFrom(s, j + 1)

SplitLines(s) == SplitFrom(s, 1)

EndsWith(s, suffix) ==
    Len(s) >= Len(suffix) /\ SubSeq(s, Len(s) - Len(suffix) + 1, Len(s)) = suffix

\* s.includes(sub)
IncludesSeq(s, sub) ==
    \E i \in 1..(Len(s) - Len(sub) + 1) : SubSeq(s, i, i + Len(sub) - 1) = sub

----------------------------------------------------------------------------
(* Numbers.  A JavaScript number is an IEEE 754 binary64 value.  The model  *)
(* holds it as sign, significand and exponent: [neg, m, e] stands for       *)
(* (-1)^neg * m * 2^e, where m is a natural number of exactly 53 bits,      *)
(* written as a little-endian sequence of limbs in base 2^15; zero is       *)
(* [neg |-> FALSE, m |-> <<>>, e |-> 0].  Every operation computes the      *)
(* exact result and rounds it to nearest, ties to even, as the engine's     *)
(* arithmetic does.  Overflow, subnormal numbers, NaN and the sign of zero  *)
(* are left out: no length of a PDF page comes near them.                   *)

\* 15 bits to a limb: the product of two limbs and a carry is below 2^31
LimbBits == 30 \div 2
LimbBase == 2 ^ LimbBits
\* the 52 stored bits of a significand and the leading one
Precision == 52 + 1

\* 2^k for 0 <= k <= 15
PowersOfTwo == [k \in 0..LimbBits |-> 2 ^ k]
Pow2(k) == PowersOfTwo[k]

\* ---- natural numbers of any size: little-endian limbs, no zero limb on top

RECURSIVE BTrim(_)
BTrim(a) == IF a # <<>> /\ a[Len(a)] = 0 THEN BTrim(SubSeq(a, 1, Len(a) - 1)) ELSE a

RECURSIVE BFromInt(_)
BFromInt(n) == IF n = 0 THEN <<>> ELSE <<n % LimbBase>> \o BFromInt(n \div LimbBase)

RECURSIVE BToInt(_)
BToInt(a) == IF a = <<>> THEN 0 ELSE a[1] + LimbBase * BToInt(Tail(a))

BLimb(a, i) == IF i <= Len(a) THEN a[i] ELSE 0

RECURSIVE BAddFrom(_, _, _, _)
BAddFrom(a, b, i, carry) ==
    IF i > Len(a) /\ i > Len(b) THEN (IF carry = 0 THEN <<>> ELSE <<carry>>)
    ELSE LET s == BLimb(a, i) + BLimb(b, i) + carry
         IN  <<s % LimbBase>> \o BAddFrom(a, b, i + 1, s \div LimbBase)

BAdd(a, b) == BAddFrom(a, b, 1, 0)

\* a + 1, the carry entering at limb i
RECURSIVE BIncFrom(_, _)
BIncFrom(a, i) ==
    IF i > Len(a) THEN Append(a, 1)
    ELSE IF a[i] + 1 < LimbBase THEN [a EXCEPT ![i] = @ + 1]
    ELSE BIncFrom([a EXCEPT ![i] = 0], i + 1)

BInc(a) == BIncFrom(a, 1)

\* a - b for a >= b
RECURSIVE BSubFrom(_, _, _, _)
BSubFrom(a, b, i, borrow) ==
    IF i > Len(a) THEN <<>>
    ELSE LET d == a[i] - BLimb(b, i) - borrow
         IN  <<(d + LimbBase) % LimbBase>> \o BSubFrom(a, b, i + 1, IF d < 0 THEN 1 ELSE 0)

BSub(a, b) == BTrim(BSubFrom(a, b, 1, 0))

\* -1, 0 or 1 as a < b, a = b or a > b
RECURSIVE BCmpFrom(_, _, _)
BCmpFrom(a, b, i) ==
    IF i = 0 THEN 0
    ELSE IF a[i] < b[i] THEN -1
    ELSE IF a[i] > b[i] THEN 1
    ELSE BCmpFrom(a, b, i - 1)

BCmp(a, b) ==
    IF Len(a) < Len(b) THEN -1
    ELSE IF Len(a) > Len(b) THEN 1
    ELSE BCmpFrom(a, b, Len(a))

\* a * k for a limb k
RECURSIVE BMulLimbFrom(_, _, _, _)
BMulLimbFrom(a, k, i, carry) ==
    IF i > Len(a) THEN (IF carry = 0 THEN <<>> ELSE <<carry>>)
    ELSE LET p == a[i] * k + carry
         IN  <<p % LimbBase>> \o BMulLimbFrom(a, k, i + 1, p \div LimbBase)

\* a * b from limb j of b on, for a # 0 and j <= Len(b)
RECURSIVE BMulFrom(_, _, _)
BMulFrom(a, b, j) ==
    IF j = Len(b) THEN BMulLimbFrom(a, b[j], 1, 0)
    ELSE BAdd(BMulLimbFrom(a, b[j], 1, 0), <<0>> \o BMulFrom(a, b, j + 1))

\* the number of zero limbs at the low end of a # 0, counted from limb i
RECURSIVE LowZeroLimbs(_, _)
LowZeroLimbs(a, i) == IF a[i] = 0 THEN 1 + LowZeroLimbs(a, i + 1) ELSE 0

\* a * b for numbers without a zero limb at the low end: the shorter one
\* gives the limbs to multiply by
BMulOdd(a, b) == BTrim(IF Len(a) < Len(b) THEN BMulFrom(b, a, 1) ELSE BMulFrom(a, b, 1))

\* a * b, a having za and b having zb zero limbs at the low end
BMulAt(a, za, b, zb) ==
    [i \in 1..(za + zb) |-> 0]
        \o BMulOdd(SubSeq(a, za + 1, Len(a)), SubSeq(b, zb + 1, Len(b)))

BMul(a, b) ==
    IF a = <<>> \/ b = <<>> THEN <<>>
    ELSE BMulAt(a, LowZeroLimbs(a, 1), b, LowZeroLimbs(b, 1))

\* number of bits of a limb
LimbLen(n) ==
    IF n < 128
    THEN IF n < 8 THEN (IF n < 2 THEN n ELSE IF n < 4 THEN 2 ELSE 3)
         ELSE IF n < 32 THEN (IF n < 16 THEN 4 ELSE 5)
         ELSE IF n < 64 THEN 6 ELSE 7
    ELSE IF n < 2048
         THEN IF n < 512 THEN (IF n < 256 THEN 8 ELSE 9)
              ELSE IF n < 1024 THEN 10 ELSE 11
         ELSE IF n < 8192 THEN (IF n < 4096 THEN 12 ELSE 13)
         ELSE IF n < 16384 THEN 14 ELSE 15

BBitLen(a) == IF a = <<>> THEN 0 ELSE LimbBits * (Len(a) - 1) + LimbLen(a[Len(a)])

\* bit i of a, bit 0 being the lowest
BBit(a, i) == (BLimb(a, (i \div LimbBits) + 1) \div Pow2(i % LimbBits)) % 2

\* the n lowest bits of a are zero
BLowZero(a, n) ==
    /\ \A i \in 1..(n \div LimbBits) : BLimb(a, i) = 0
    /\ BLimb(a, (n \div LimbBits) + 1) % Pow2(n % LimbBits) = 0

\* a * 2^n
BShl(a, n) ==
    IF a = <<>> THEN <<>>
    ELSE LET r == n % LimbBits
             up == [i \in 1..(Len(a) + 1) |->
                      ((BLimb(a, i) * Pow2(r)) % LimbBase)
                      + (IF i = 1 THEN 0 ELSE a[i - 1] \div Pow2(LimbBits - r))]
         IN  [i \in 1..(n \div LimbBits) |-> 0] \o BTrim(up)

\* a div 2^n
BShr(a, n) ==
    LET s == n \div LimbBits
        r == n % LimbBits
    IN  IF s >= Len(a) THEN <<>>
        ELSE BTrim([i \in 1..(Len(a) - s) |->
                      (a[i + s] \div Pow2(r))
                      + (BLimb(a, i + s + 1) % Pow2(r)) * Pow2(LimbBits - r)])

\* quotient of a by a limb n > 0, from limb i down, and whether it is exact
RECURSIVE BDivLimbFrom(_, _, _, _, _)
BDivLimbFrom(a, n, i, rem, q) ==
    IF i = 0 THEN [q |-> BTrim(q), exact |-> rem = 0]
    ELSE BDivLimbFrom(a, n, i - 1, (rem * LimbBase + a[i]) % n,
                      <<(rem * LimbBase + a[i]) \div n>> \o q)

BDivLimb(a, n) == BDivLimbFrom(a, n, Len(a), 0, <<>>)

\* the quotient of r * 2^n by d, for r < d, as n bits after the bits q, and
\* whether it is exact; st holds r doubled, q and n
RECURSIVE BDivBits(_, _)
BDivBits(st, d) ==
    IF st.n = 0 THEN [q |-> st.q, exact |-> st.r2 = <<>>]
    ELSE BDivBits(IF BCmp(st.r2, d) >= 0
                  THEN [r2 |-> BShl(BSub(st.r2, d), 1), q |-> BAdd(BShl(st.q, 1), <<1>>),
                        n |-> st.n - 1]
                  ELSE [r2 |-> BShl(st.r2, 1), q |-> BShl(st.q, 1), n |-> st.n - 1],
                  d)

\* ---- binary64

Zero == [neg |-> FALSE, m |-> <<>>, e |-> 0]

IsZero(x) == x.m = <<>>

\* a significand q of 53 or 54 bits as a number
Normalised(neg, q, e) ==
    IF BBitLen(q) > Precision THEN [neg |-> neg, m |-> BShr(q, 1), e |-> e + 1]
    ELSE [neg |-> neg, m |-> q, e |-> e]

\* dropping the d lowest bits of n rounds up: the first dropped bit is set
\* and the rest is not zero, or the kept part is odd
RoundsUp(n, d, sticky) ==
    BBit(n, d - 1) = 1 /\ (sticky \/ ~BLowZero(n, d - 1) \/ BBit(n, d) = 1)

\* Rounded for n # 0 of len bits
RoundedBits(neg, n, e, sticky, len) ==
    IF len <= Precision
    THEN [neg |-> neg, m |-> BShl(n, Precision - len), e |-> e - (Precision - len)]
    ELSE Normalised(neg,
                    IF RoundsUp(n, len - Precision, sticky)
                    THEN BInc(BShr(n, len - Precision))
                    ELSE BShr(n, len - Precision),
                    e + (len - Precision))

\* the number nearest to (-1)^neg * (n + f) * 2^e, ties to even, for a natural
\* number n and a fraction f in [0, 1) that is positive exactly when sticky;
\* a sticky n has more than Precision bits
Rounded(neg, n, e, sticky) ==
    IF n = <<>> THEN Zero ELSE RoundedBits(neg, n, e, sticky, BBitLen(n))

\* the number of an integer
FromInt(k) == Rounded(k < 0, BFromInt(IF k < 0 THEN -k ELSE k), 0, FALSE)

\* the integer of a number that is a small integer
FToInt(x) ==
    IF IsZero(x) THEN 0
    ELSE (IF x.neg THEN -1 ELSE 1)
         * BToInt(IF x.e >= 0 THEN BShl(x.m, x.e) ELSE BShr(x.m, -x.e))

\* x is an integer
FIsInt(x) == IsZero(x) \/ x.e >= 0 \/ BLowZero(x.m, -x.e)

\* -1, 0 or 1 as |x| < |y|, |x| = |y| or |x| > |y|
FCmpAbs(x, y) ==
    IF IsZero(x) THEN (IF IsZero(y) THEN 0 ELSE -1)
    ELSE IF IsZero(y) THEN 1
    ELSE IF x.e < y.e THEN -1
    ELSE IF x.e > y.e THEN 1
    ELSE BCmp(x.m, y.m)

\* -1, 0 or 1 as x < y, x = y or x > y
FCmp(x, y) ==
    IF x.neg # y.neg THEN (IF x.neg THEN -1 ELSE 1)
    ELSE (IF x.neg THEN -1 ELSE 1) * FCmpAbs(x, y)

FLess(x, y) == FCmp(x, y) < 0
FLessEq(x, y) == FCmp(x, y) <= 0
FGreater(x, y) == FCmp(x, y) > 0
FGreaterEq(x, y) == FCmp(x, y) >= 0

\* -1, 0 or 1 as x is negative, zero or positive
FSign(x) == IF IsZero(x) THEN 0 ELSE IF x.neg THEN -1 ELSE 1

FNeg(x) == IF IsZero(x) THEN x ELSE [x EXCEPT !.neg = ~x.neg]

\* Math.abs
MathAbs(x) == [x EXCEPT !.neg = FALSE]

\* Math.max of two numbers
MathMax(x, y) == IF FLess(x, y) THEN y ELSE x

\* the sum of (-1)^xneg * mx * 2^e and (-1)^yneg * my * 2^e
SumAligned(xneg, mx, yneg, my, e) ==
    Rounded(IF xneg = yneg \/ BCmp(mx, my) >= 0 THEN xneg ELSE yneg,
            IF xneg = yneg THEN BAdd(mx, my)
            ELSE IF BCmp(mx, my) >= 0 THEN BSub(mx, my) ELSE BSub(my, mx),
            e, FALSE)

\* the sum of x # 0 and y # 0, e being the lesser exponent
SumAt(x, y, e) == SumAligned(x.neg, BShl(x.m, x.e - e), y.neg, BShl(y.m, y.e - e), e)

\* x + y
FAdd(x, y) ==
    IF IsZero(x) THEN y
    ELSE IF IsZero(y) THEN x
    ELSE SumAt(x, y, IF x.e < y.e THEN x.e ELSE y.e)

\* x - y
FSub(x, y) == FAdd(x, FNeg(y))

\* x * y
FMul(x, y) ==
    IF IsZero(x) \/ IsZero(y) THEN Zero
    ELSE Rounded(x.neg # y.neg, BMul(x.m, y.m), x.e + y.e, FALSE)

\* the number of zero bits at the low end of a # 0, counted from limb i
RECURSIVE LimbTrailingZeros(_)
LimbTrailingZeros(n) == IF n % 2 = 1 THEN 0 ELSE 1 + LimbTrailingZeros(n \div 2)

RECURSIVE BTrailingZerosFrom(_, _)
BTrailingZerosFrom(a, i) ==
    IF a[i] = 0 THEN LimbBits + BTrailingZerosFrom(a, i + 1)
    ELSE LimbTrailingZeros(a[i])

\* the quotient of x.m * 2^18 by the limb odd: at least 56 bits
ShortQuotient(x, odd) == BDivLimb(BShl(x.m, LimbBits + 3), odd)

\* the quotient of x.m * 2^55 by y.m, bit by bit: 55 or 56 bits
LongQuotient(x, y) ==
    BDivBits(IF BCmp(x.m, y.m) >= 0
             THEN [r2 |-> BShl(BSub(x.m, y.m), 1), q |-> <<1>>, n |-> Precision + 2]
             ELSE [r2 |-> BShl(x.m, 1), q |-> <<>>, n |-> Precision + 2],
             y.m)

\* the quotient d at the exponent e as a number
RoundedQuotient(neg, d, e) == Rounded(neg, d.q, e, ~d.exact)

\* x / y for x # 0, y.m being odd * 2^tz
FDivOdd(x, y, tz, odd) ==
    RoundedQuotient(x.neg # y.neg,
                    IF Len(odd) = 1 THEN ShortQuotient(x, odd[1]) ELSE LongQuotient(x, y),
                    IF Len(odd) = 1 THEN x.e - (LimbBits + 3) - (y.e + tz)
                    ELSE x.e - y.e - (Precision + 2))

FDivShifted(x, y, tz) == FDivOdd(x, y, tz, BShr(y.m, tz))

\* x / y for y # 0
FDiv(x, y) ==
    IF IsZero(x) THEN Zero ELSE FDivShifted(x, y, BTrailingZerosFrom(y.m, 1))

\* x with its fraction dropped and, when away, the next integer from zero
Whole(x, away) ==
    Rounded(x.neg, IF away THEN BInc(BShr(x.m, -x.e)) ELSE BShr(x.m, -x.e), 0, FALSE)

\* Math.round: the nearest integer, a tie going up
MathRound(x) ==
    IF FIsInt(x) THEN x
    ELSE Whole(x, /\ BBit(x.m, -x.e - 1) = 1
                  /\ (x.neg => ~BLowZero(x.m, -x.e - 1)))

\* Math.floor
MathFloor(x) == IF FIsInt(x) THEN x ELSE Whole(x, x.neg)

\* Math.ceil
MathCeil(x) == IF FIsInt(x) THEN x ELSE Whole(x, ~x.neg)

\* the number that the decimal numeral of k / 100 denotes (1.15 for k = 115):
\* the quotient of |k| * 2^60 by 25, which is |k| / 100 * 2^62, rounded once
FromHundredths(k) ==
    IF k = 0 THEN Zero
    ELSE RoundedQuotient(k < 0,
                         BDivLimb(BShl(BFromInt(IF k < 0 THEN -k ELSE k), 4 * LimbBits), 25),
                         -(4 * LimbBits + 2))

----------------------------------------------------------------------------
(* Text Normalizer: src/README.md 444-526 *)

\* rawMD.replace(/([\p{L}\p{N}])-\n([\p{L}\p{N}])/gu, '$1$2'): a left to right
\* scan by code points; a match consumes its four characters, the search
\* resumes after them
RECURSIVE HyphenFrom(_, _)
HyphenFrom(s, i) ==
    IF i > Len(s) THEN <<>>
    ELSE LET n == CodePointLength(s, i)
             j == i + n + 2
         IN  IF /\ j <= Len(s)
                /\ IsAlnum(CodePointAt(s, i))
                /\ s[i + n] = HYPHEN
                /\ s[i + n + 1] = NL
                /\ IsAlnum(CodePointAt(s, j))
             THEN SubSeq(s, i, i + n - 1)
                  \o SubSeq(s, j, j + CodePointLength(s, j) - 1)
                  \o HyphenFrom(s, j + CodePointLength(s, j))
             ELSE SubSeq(s, i, i + n - 1) \o HyphenFrom(s, i + n)

HyphenationMerge(s) == HyphenFrom(s, 1)

\* /^\s*#+\s/
isHeading(line) ==
    LET k == SpanSpace(line, 1)
        m == SpanChar(line, k + 1, HASH)
    IN  m >= 1 /\ k + m + 1 <= Len(line) /\ IsSpace(line[k + m + 1])

\* /^\s*([-*•●]|\d+\.)\s+/
isList(line) ==
    LET k == SpanSpace(line, 1)
        d == SpanDigit(line, k + 1)
    IN  \/ /\ k + 2 <= Len(line)
           /\ line[k + 1] \in {HYPHEN, STAR, BULLET, BLACKCIRCLE}
           /\ IsSpace(line[k + 2])
        \/ /\ d >= 1
           /\ k + d + 2 <= Len(line)
           /\ line[k + d + 1] = DOT
           /\ IsSpace(line[k + d + 2])

\* /[.!?。！？]$/
isHardStop(line) ==
    line # <<>> /\ Last(line) \in {DOT, BANG, QMARK, CJKSTOP, FWBANG, FWQMARK}

\* /[-–—]$/
endsWithDash(line) == line # <<>> /\ Last(line) \in {HYPHEN, ENDASH, EMDASH}

\* getFirstChar / getFirstCharLocal: <<>> stands for ""; for...of hands out
\* code points, so a surrogate pair is returned whole
getFirstChar(text) ==
    LET k == SpanSpace(text, 1)
    IN  IF k < Len(text) THEN SubSeq(text, k + 1, k + CodePointLength(text, k + 1)) ELSE <<>>

\* getLastChar / getLastCharLocal
getLastChar(text) == LET t == TrimEnd(text) IN IF t = <<>> THEN <<>> ELSE <<Last(t)>>

\* a rule that forgets the CJK test: every wide gap gets a space
AlwaysInsertSpace(prevChar, nextChar) == TRUE

\* shouldInsertSpace / shouldInsertSpaceLocal
shouldInsertSpace(prevChar, nextChar) ==
    IF prevChar = <<>> \/ nextChar = <<>> THEN TRUE
    ELSE ~(isCJKChar(prevChar) /\ isCJKChar(nextChar))

\* the shouldFlush condition of mergeWrappedLines
shouldFlush(buffer, current) ==
    \/ Trim(buffer) = <<>>
    \/ Trim(current) = <<>>
    \/ isHeading(current)
    \/ isHeading(buffer)
    \/ isList(current)
    \/ isList(buffer)
    \/ (isHardStop(buffer) /\ ~endsWithDash(buffer))

\* the else branch of mergeWrappedLines: the buffer extended by the current line
JoinInto(buffer, current) ==
    IF isList(buffer) /\ ~isList(current) /\ ~isHeading(current)
    THEN buffer
         \o (IF shouldInsertSpace(getLastChar(buffer), getFirstChar(current))
             THEN <<SP>> ELSE <<>>)
         \o Trim(current)
    ELSE buffer \o <<SP>> \o current

\* the loop of mergeWrappedLines from line i on; returns the array merged
RECURSIVE MergeLoop(_, _, _, _)
MergeLoop(ls, i, buffer, merged) ==
    IF i > Len(ls)
    THEN IF buffer # <<>> THEN Append(merged, buffer) ELSE merged
    ELSE IF shouldFlush(buffer, ls[i])
         THEN MergeLoop(ls, i + 1, ls[i], Append(merged, buffer))
         ELSE MergeLoop(ls, i + 1, JoinInto(buffer, ls[i]), merged)

\* the array merged of mergeWrappedLines(text)
MergedLines(text) ==
    LET ls == SplitLines(text) IN MergeLoop(ls, 2, ls[1], <<>>)

mergeWrappedLines(text) == JoinWith(MergedLines(text), <<NL>>)

\* a buggy collapse: every three newlines become two, nothing greedy
RECURSIVE CollapseTriples(_, _)
CollapseTriples(s, i) ==
    IF i > Len(s) THEN <<>>
    ELSE IF SpanChar(s, i, NL) >= 3
         THEN <<NL, NL>> \o CollapseTriples(s, i + 3)
         ELSE <<s[i]>> \o CollapseTriples(s, i + 1)

CollapseNonGreedy(s) == CollapseTriples(s, 1)

\* rawMD.replace(/\n{3,}/g, '\n\n')
RECURSIVE CollapseFrom(_, _)
CollapseFrom(s, i) ==
    IF i > Len(s) THEN <<>>
    ELSE LET n == SpanChar(s, i, NL)
         IN  IF n >= 3 THEN <<NL, NL>> \o CollapseFrom(s, i + n)
             ELSE <<s[i]>> \o CollapseFrom(s, i + 1)

CollapseBlankLines(s) == CollapseFrom(s, 1)

----------------------------------------------------------------------------
(* Fragment ingestion: src/README.md 111-149 *)

\* MAX_PAGE_TEXT_BYTES = 200 * 1024 * 1024
MAX_PAGE_TEXT_BYTES == 200 * 1024 * 1024

\* the numerals of the source
Two == FromInt(2)
Four == FromInt(4)
Ten == FromInt(10)
Lit_0_25 == FromHundredths(25)
Lit_0_5 == FromHundredths(50)
Lit_0_6 == FromHundredths(60)
Lit_0_9 == FromHundredths(90)
Lit_1_1 == FromHundredths(110)
Lit_1_15 == FromHundredths(115)
Lit_1_4 == FromHundredths(140)
Lit_1_5 == FromHundredths(150)
Lit_1_6 == FromHundredths(160)
Lit_1_8 == FromHundredths(180)

\* textEncoder.encode(text).length, one code point at a time; a surrogate
\* without its partner is encoded as U+FFFD
RECURSIVE Utf8From(_, _)
Utf8From(s, i) ==
    IF i > Len(s) THEN 0
    ELSE (IF IsPair(s, i) THEN 4
          ELSE IF s[i] < 128 THEN 1
          ELSE IF s[i] < 2048 THEN 2
          ELSE 3)
         + Utf8From(s, i + CodePointLength(s, i))

Utf8Len(s) == Utf8From(s, 1)

\* the encoded length of a raw item's text; an item with bulk > 0 stands for a
\* text of that many bytes whose characters the model does not spell out
EncodedLength(raw) == IF raw.bulk > 0 THEN raw.bulk ELSE Utf8Len(raw.str)

\* the object pushed onto allItems for one raw item of page i (lines 134-144).
\* The numbers the PDF library hands over are written in hundredths: raw.t3,
\* raw.t4, raw.t5 are item.transform[3..5], raw.width is item.width (0 also
\* when it is missing) and viewportHeight is viewport.height
MakeItem(raw, i, viewportHeight) ==
    LET isWhitespace == Trim(raw.str) = <<>>
        height == MathAbs(FromHundredths(raw.t3))
        width == FromHundredths(raw.width)
    IN  [ str  |-> IF isWhitespace THEN <<SP>> ELSE raw.str,
          x    |-> FromHundredths(raw.t4),
          y    |-> FSub(FromHundredths(viewportHeight), FromHundredths(raw.t5)),
          h    |-> height,
          w    |-> IF ~IsZero(width) THEN width
                   ELSE FMul(FMul(FromInt(Len(raw.str)), height), Lit_0_5),
          page |-> i,
          isWhitespace |-> isWhitespace ]

\* the for-of loop over textContent.items of page i, from item k on, with the
\* bytes counted so far; ab is signal.aborted, which cannot change inside the
\* loop.  outcome "ok": the loop ended; "abort": throwIfAborted threw at a
\* multiple of 200 items; "overflow": the 200MB error was thrown
RECURSIVE IngestFrom(_, _, _, _, _, _)
IngestFrom(raws, k, i, viewportHeight, pageTextBytes, ab) ==
    IF k > Len(raws) THEN [items |-> <<>>, outcome |-> "ok"]
    ELSE IF k % 200 = 0 /\ ab THEN [items |-> <<>>, outcome |-> "abort"]
    ELSE IF raws[k].str = <<>>
         THEN IngestFrom(raws, k + 1, i, viewportHeight, pageTextBytes, ab)
         ELSE LET bytes == pageTextBytes + EncodedLength(raws[k])
              IN  IF bytes > MAX_PAGE_TEXT_BYTES
                  THEN [items |-> <<>>, outcome |-> "overflow"]
                  ELSE LET rest == IngestFrom(raws, k + 1, i, viewportHeight, bytes, ab)
                       IN  [items |-> <<MakeItem(raws[k], i, viewportHeight)>> \o rest.items,
                            outcome |-> rest.outcome]

----------------------------------------------------------------------------
(* Body-size estimator: src/README.md 162-175 *)

\* Math.round(i.h * 10) / 10
RoundHeight(h) == FDiv(MathRound(FMul(h, Ten)), Ten)

\* the h of line 164 for every item, in item order
RECURSIVE HeightKeys(_)
HeightKeys(items) ==
    IF items = <<>> THEN <<>>
    ELSE <<RoundHeight(Head(items).h)>> \o HeightKeys(Tail(items))

\* the keys of heightCounts in first-insertion order, hs being the h of the
\* items
RECURSIVE InsertionKeys(_, _)
InsertionKeys(hs, seen) ==
    IF hs = <<>> THEN <<>>
    ELSE IF Head(hs) \in seen THEN InsertionKeys(Tail(hs), seen)
    ELSE <<Head(hs)>> \o InsertionKeys(Tail(hs), seen \cup {Head(hs)})

\* 2^32 - 1
ArrayIndexLimit == FSub(FMul(FromInt(65536), FromInt(65536)), FromInt(1))

\* a key that is a canonical array index ("12", not "12.5"): the string of an
\* integer from 0 to 2^32 - 2
IsIndexKey(k) == FIsInt(k) /\ ~k.neg /\ FLess(k, ArrayIndexLimit)

RECURSIVE SortAscending(_)
SortAscending(S) ==
    IF S = {} THEN <<>>
    ELSE LET m == CHOOSE x \in S : \A y \in S : FLessEq(x, y)
         IN  <<m>> \o SortAscending(S \ {m})

\* Array.prototype.filter on a sequence of numbers
RECURSIVE KeepNonIndex(_)
KeepNonIndex(ks) ==
    IF ks = <<>> THEN <<>>
    ELSE (IF IsIndexKey(Head(ks)) THEN <<>> ELSE <<Head(ks)>>) \o KeepNonIndex(Tail(ks))

\* the order in which "for (const h in heightCounts)" visits the keys:
\* integer keys ascending, then the other keys in insertion order
HeightKeyOrder(hs) ==
    LET ks == InsertionKeys(hs, {})
    IN  SortAscending({ks[j] : j \in {j \in 1..Len(ks) : IsIndexKey(ks[j])}})
            \o KeepNonIndex(ks)

\* heightCounts[k]
HeightCount(hs, k) == Cardinality({j \in 1..Len(hs) : hs[j] = k})

\* the loop of lines 170-175 over the keys ks, from the best so far
RECURSIVE ModeLoop(_, _, _, _)
ModeLoop(hs, ks, best, maxCount) ==
    IF ks = <<>> THEN best
    ELSE IF HeightCount(hs, Head(ks)) > maxCount
         THEN ModeLoop(hs, Tail(ks), Head(ks), HeightCount(hs, Head(ks)))
         ELSE ModeLoop(hs, Tail(ks), best, maxCount)

\* a buggy estimator: the first key visited wins whatever its count
FirstKeyHeight(items) == HeightKeyOrder(HeightKeys(items))[1]

\* bodyHeight of lines 162-175: the key the loop of lines 170-175 ends on, 12
\* when there is no key.  parseFloat of a key gives back the number the key
\* was made from.
BodyHeightOf(items) ==
    LET hs == HeightKeys(items) IN ModeLoop(hs, HeightKeyOrder(hs), FromInt(12), 0)

----------------------------------------------------------------------------
(* Reading-order sequencer: src/README.md 185-216 *)

\* the comparator of allItems.sort: the sign of what it returns
CompareItems(a, b) ==
    IF a.page # b.page THEN a.page - b.page
    ELSE IF FLess(MathAbs(FSub(a.y, b.y)), Two) THEN FSign(FSub(a.x, b.x))
    ELSE FSign(FSub(a.y, b.y))

\* (a, b) => a.x - b.x: the sign of what it returns
CompareX(a, b) == FSign(FSub(a.x, b.x))

\* the comparator that byX selects: items.sort((a, b) => a.x - b.x) when
\* byX, the comparator of allItems.sort otherwise
Compare(a, b, byX) == IF byX THEN CompareX(a, b) ELSE CompareItems(a, b)

\* Array.prototype.sort with a comparator, as the engine runs it on an array
\* of fewer than 64 elements: the leading run is found (a strictly descending
\* one is reversed) and every later element is put in place by a binary
\* insertion.  With a consistent comparator this is the one stable order, at
\* every length; with the comparator of the sequencer, which is not
\* transitive, the order depends on these steps (see SortOutcomes).
RECURSIVE RunLength(_, _, _, _)
RunLength(s, idx, descending, byX) ==
    IF idx > Len(s) THEN idx - 1
    ELSE LET order == Compare(s[idx], s[idx - 1], byX)
         IN  IF (descending /\ order >= 0) \/ (~descending /\ order < 0)
             THEN idx - 1
             ELSE RunLength(s, idx + 1, descending, byX)

ReverseRange(s, n) ==
    [k \in 1..Len(s) |-> IF k <= n THEN s[n + 1 - k] ELSE s[k]]

\* the leading run made ascending, and its length
CountAndMakeRun(s, byX) ==
    LET descending == Compare(s[2], s[1], byX) < 0
        run == RunLength(s, 3, descending, byX)
    IN  [arr |-> IF descending THEN ReverseRange(s, run) ELSE s, run |-> run]

\* the binary search of the insertion: the place of pivot in s[left..right-1]
RECURSIVE InsertionPoint(_, _, _, _, _)
InsertionPoint(s, pivot, left, right, byX) ==
    IF left >= right THEN left
    ELSE LET mid == left + ((right - left) \div 2)
         IN  IF Compare(pivot, s[mid], byX) < 0
             THEN InsertionPoint(s, pivot, left, mid, byX)
             ELSE InsertionPoint(s, pivot, mid + 1, right, byX)

RECURSIVE BinaryInsertionSort(_, _, _)
BinaryInsertionSort(s, start, byX) ==
    IF start > Len(s) THEN s
    ELSE LET pivot == s[start]
             left == InsertionPoint(s, pivot, 1, start, byX)
             moved == [k \in 1..Len(s) |->
                          IF k < left \/ k > start THEN s[k]
                          ELSE IF k = left THEN pivot
                          ELSE s[k - 1]]
         IN  BinaryInsertionSort(moved, start + 1, byX)

SortBy(s, byX) ==
    IF Len(s) < 2 THEN s
    ELSE LET made == CountAndMakeRun(s, byX)
         IN  BinaryInsertionSort(made.arr, made.run + 1, byX)

\* the comparator of allItems.sort is consistent on the elements of s: it
\* orders them as a strict weak order
IsConsistent(s) ==
    LET n == Len(s)
        c == [i \in 1..n |-> [j \in 1..n |-> CompareItems(s[i], s[j])]]
    IN  /\ \A i, j \in 1..n : (c[i][j] < 0) = (c[j][i] > 0)
        /\ \A i, j, k \in 1..n : c[i][j] < 0 /\ c[j][k] < 0 => c[i][k] < 0
        /\ \A i, j, k \in 1..n : c[i][j] = 0 /\ c[j][k] = 0 => c[i][k] = 0

\* the arrangements of the elements of s
Arrangements(s) ==
    {[i \in 1..Len(s) |-> s[p[i]]] :
        p \in {f \in [1..Len(s) -> 1..Len(s)] : \A i, j \in 1..Len(s) : f[i] = f[j] => i = j}}

\* what allItems.sort can leave in the array.  A consistent comparator has one
\* stable order, which the insertion sort finds at every length.  Otherwise
\* the order is implementation-defined: below 64 elements it is the order of
\* the insertion sort, from 64 elements on the engine merges runs and the
\* array can be left in an order that the model does not single out.
SortOutcomes(s) ==
    IF Len(s) < 64 \/ IsConsistent(s) THEN {SortBy(s, FALSE)} ELSE Arrangements(s)

\* a tolerance of half the body height
LineToleranceHalf(bh) == MathMax(Two, FMul(bh, Lit_0_5))

\* lineTolerance = Math.max(2, bodyHeight * 0.25)
lineTolerance(bh) == MathMax(Two, FMul(bh, Lit_0_25))

\* the grouping loop of lines 198-215 from item k on; cur is currentLine
RECURSIVE GroupFrom(_, _, _, _)
GroupFrom(items, k, cur, tolerance) ==
    LET closed == [cur EXCEPT !.items = SortBy(cur.items, TRUE)]
    IN  IF k > Len(items) THEN <<closed>>
        ELSE LET it == items[k]
                 yDiff == MathAbs(FSub(it.y, cur.y))
             IN  IF it.page = cur.page /\ FLess(yDiff, tolerance)
                 THEN GroupFrom(items, k + 1, [cur EXCEPT !.items = Append(@, it)], tolerance)
                 ELSE <<closed>> \o GroupFrom(items, k + 1,
                                     [y |-> it.y, items |-> <<it>>, page |-> it.page],
                                     tolerance)

\* lines, from the sorted allItems
GroupLines(items, bh) ==
    IF items = <<>> THEN <<>>
    ELSE GroupFrom(items, 2, [y |-> items[1].y, items |-> <<items[1]>>, page |-> items[1].page],
                   lineTolerance(bh))

----------------------------------------------------------------------------
(* Line text builder: src/README.md 243-314 *)

\* items.filter(i => i.str && (i.str.trim() || i.isWhitespace))
RECURSIVE CleanedOf(_)
CleanedOf(items) ==
    IF items = <<>> THEN <<>>
    ELSE LET i == Head(items)
         IN  (IF i.str # <<>> /\ (Trim(i.str) # <<>> \/ i.isWhitespace) THEN <<i>> ELSE <<>>)
             \o CleanedOf(Tail(items))

\* cleaned.filter(i => !i.isWhitespace)
RECURSIVE NonSpaceOf(_)
NonSpaceOf(cl) ==
    IF cl = <<>> THEN <<>>
    ELSE (IF Head(cl).isWhitespace THEN <<>> ELSE <<Head(cl)>>) \o NonSpaceOf(Tail(cl))

\* totalWidth of lines 247-255, added up from item i on
RECURSIVE TotalWidthFrom(_, _, _)
TotalWidthFrom(ns, i, sum) ==
    IF i > Len(ns) THEN sum ELSE TotalWidthFrom(ns, i + 1, FAdd(sum, ns[i].w))

TotalWidth(ns) == TotalWidthFrom(ns, 1, Zero)

RECURSIVE TotalChars(_)
TotalChars(ns) == IF ns = <<>> THEN 0 ELSE Len(Head(ns).str) + TotalChars(Tail(ns))

\* avgCharWidth = totalChars ? totalWidth / totalChars : 0
avgCharWidth(ns) ==
    IF TotalChars(ns) = 0 THEN Zero ELSE FDiv(TotalWidth(ns), FromInt(TotalChars(ns)))

\* baseThreshold = avgCharWidth ? avgCharWidth * 0.6 : 2
baseThreshold(ns) ==
    LET avg == avgCharWidth(ns) IN IF IsZero(avg) THEN Two ELSE FMul(avg, Lit_0_6)

\* curr.x - (prev.x + prev.w)
GapBetween(prev, curr) == FSub(curr.x, FAdd(prev.x, prev.w))

\* the gaps array of lines 258-264: the positive gaps, in fragment order
RECURSIVE GapsFrom(_, _)
GapsFrom(ns, i) ==
    IF i > Len(ns) THEN <<>>
    ELSE LET gap == GapBetween(ns[i - 1], ns[i])
         IN  (IF FSign(gap) > 0 THEN <<gap>> ELSE <<>>) \o GapsFrom(ns, i + 1)

RECURSIVE InsertNum(_, _)
InsertNum(s, e) ==
    IF s = <<>> THEN <<e>>
    ELSE IF FLess(e, Last(s)) THEN Append(InsertNum(SubSeq(s, 1, Len(s) - 1), e), Last(s))
    ELSE Append(s, e)

\* gaps.slice().sort((a, b) => a - b)
RECURSIVE SortNums(_)
SortNums(s) == IF s = <<>> THEN <<>> ELSE InsertNum(SortNums(SubSeq(s, 1, Len(s) - 1)), Last(s))

sortedGaps(ns) == SortNums(GapsFrom(ns, 2))

\* sortedGaps[Math.floor(sortedGaps.length / 2)], or 0
MedianOf(g) == IF g = <<>> THEN Zero ELSE g[(Len(g) \div 2) + 1]

\* sortedGaps[Math.floor(sortedGaps.length * 0.9)], or 0
P90Of(g) ==
    IF g = <<>> THEN Zero
    ELSE g[FToInt(MathFloor(FMul(FromInt(Len(g)), Lit_0_9))) + 1]

medianGap(ns) == MedianOf(sortedGaps(ns))

p90Gap(ns) == P90Of(sortedGaps(ns))

\* a threshold that is the candidate alone, without the floor of baseThreshold
WordGapThresholdNoFloor(ns) ==
    LET g == sortedGaps(ns)
        med == MedianOf(g)
        p90 == P90Of(g)
    IN  IF Len(g) >= 3
        THEN IF FGreater(p90, FMul(med, Lit_1_6)) THEN FDiv(FAdd(med, p90), Two)
             ELSE IF FSign(med) > 0 THEN FMul(med, Lit_1_4)
             ELSE baseThreshold(ns)
        ELSE baseThreshold(ns)

\* wordGapThreshold of lines 268-275, from baseThreshold, medianGap, p90Gap
\* and sortedGaps.length
WordGapThresholdOf(base, med, p90, n) ==
    IF n >= 3
    THEN IF FGreater(p90, FMul(med, Lit_1_6)) THEN MathMax(base, FDiv(FAdd(med, p90), Two))
         ELSE IF FSign(med) > 0 THEN MathMax(base, FMul(med, Lit_1_4))
         ELSE base
    ELSE base

wordGapThreshold(ns) ==
    LET g == sortedGaps(ns)
    IN  WordGapThresholdOf(baseThreshold(ns), MedianOf(g), P90Of(g), Len(g))

\* fallbackThreshold = Math.max(baseThreshold * 0.6, medianGap * 1.1)
fallbackThreshold(ns) ==
    MathMax(FMul(baseThreshold(ns), Lit_0_6), FMul(medianGap(ns), Lit_1_1))

\* singleCharRate of lines 277-279
singleCharRate(ns) ==
    IF ns = <<>> THEN Zero
    ELSE FDiv(FromInt(Cardinality({j \in 1..Len(ns) : Len(ns[j].str) = 1})), FromInt(Len(ns)))

\* result.replace(/[ \t]+/g, " ")
RECURSIVE CollapseSpaces(_, _)
CollapseSpaces(s, i) ==
    IF i > Len(s) THEN <<>>
    ELSE IF s[i] \in {SP, TAB}
         THEN (IF i > 1 /\ s[i - 1] \in {SP, TAB} THEN <<>> ELSE <<SP>>) \o CollapseSpaces(s, i + 1)
         ELSE <<s[i]>> \o CollapseSpaces(s, i + 1)

\* the forEach of buildWithThreshold from item k on; prev = 0 stands for null,
\* otherwise it is the index in cl of the previous non-whitespace item
RECURSIVE BuildFrom(_, _, _, _, _)
BuildFrom(cl, k, res, prev, threshold) ==
    IF k > Len(cl) THEN res
    ELSE LET it == cl[k]
         IN  IF it.isWhitespace
             THEN BuildFrom(cl, k + 1,
                            IF EndsWith(res, <<SP>>) THEN res ELSE Append(res, SP),
                            0, threshold)
             ELSE LET spaced ==
                          IF /\ prev # 0
                             /\ FGreater(GapBetween(cl[prev], it), threshold)
                             /\ ~EndsWith(res, <<SP>>)
                             /\ shouldInsertSpace(getLastChar(res), getFirstChar(it.str))
                          THEN Append(res, SP) ELSE res
                  IN  BuildFrom(cl, k + 1, spaced \o it.str, k, threshold)

\* buildWithThreshold(threshold)
buildWithThreshold(cl, threshold) ==
    Trim(CollapseSpaces(BuildFrom(cl, 1, <<>>, 0, threshold), 1))

\* line.includes(" ")
HasSpace(s) == \E j \in 1..Len(s) : s[j] = SP

\* buildLineText(items)
buildLineText(items) ==
    LET cl == CleanedOf(items)
        ns == NonSpaceOf(cl)
        line == buildWithThreshold(cl, wordGapThreshold(ns))
    IN  IF cl = <<>> THEN <<>>
        ELSE IF /\ ~HasSpace(line)
                /\ FGreater(singleCharRate(ns), Lit_0_6)
                /\ FSign(medianGap(ns)) > 0
             THEN buildWithThreshold(cl, fallbackThreshold(ns))
             ELSE line

----------------------------------------------------------------------------
(* Structural classifier: src/README.md 316-440 *)

\* normalized.replace(/[\p{P}\p{S}]/gu, '')
RECURSIVE DropPunctFrom(_, _)
DropPunctFrom(text, i) ==
    IF i > Len(text) THEN <<>>
    ELSE LET n == CodePointLength(text, i)
         IN  (IF IsPunctOrSymbol(CodePointAt(text, i)) THEN <<>> ELSE SubSeq(text, i, i + n - 1))
             \o DropPunctFrom(text, i + n)

\* normalized.replace(/\p{N}/gu, '#')
RECURSIVE MaskNumbersFrom(_, _)
MaskNumbersFrom(text, i) ==
    IF i > Len(text) THEN <<>>
    ELSE LET n == CodePointLength(text, i)
         IN  (IF IsNumber(CodePointAt(text, i)) THEN <<HASH>> ELSE SubSeq(text, i, i + n - 1))
             \o MaskNumbersFrom(text, i + n)

\* normalized.replace(/\s+/g, '')
DropSpaces(text) == SelectSeq(text, LAMBDA c : ~IsSpace(c))

\* normalizePageMarker: lower-case, drop punctuation and symbols, write '#' for
\* every number, drop whitespace
normalizePageMarker(text) ==
    DropSpaces(MaskNumbersFrom(DropPunctFrom(toLowerCase(text), 1), 1))

\* Math.max(...xs) hands every element of xs to the call as an argument.  An
\* engine throws a RangeError when the arguments do not fit; how many fit is
\* left to the engine and, in V8, to the stack that is free when the call is
\* made, so the limit is a range: up to least arguments fit in every engine
\* the page runs in (JavaScriptCore takes 65536 whatever the stack), more than
\* most fit in none (SpiderMonkey takes 500000), and between the two the call
\* can end either way (V8 has both taken and refused 124000 to 125563)
ArgumentLimits == [least |-> 65536, most |-> 500000]

\* how the call Math.max(...line.items.map(i => i.h)) can end
SpreadOutcomes(items) ==
    (IF Len(items) <= ArgumentLimits.most THEN {"ok"} ELSE {})
        \cup (IF Len(items) > ArgumentLimits.least THEN {"RangeError"} ELSE {})

\* Math.max(...line.items.map(i => i.h)) when the call is made
RECURSIVE MaxHeight(_)
MaxHeight(items) ==
    IF Len(items) = 1 THEN items[1].h ELSE MathMax(Head(items).h, MaxHeight(Tail(items)))

\* how lines.map(...) of lines 328-332 can end: with the array, when no
\* spread throws, or with the RangeError of a line whose spread throws
LineMetaOutcomes(ls) ==
    (IF \A j \in 1..Len(ls) : "ok" \in SpreadOutcomes(ls[j].items) THEN {"ok"} ELSE {})
        \cup (IF \E j \in 1..Len(ls) : "RangeError" \in SpreadOutcomes(ls[j].items)
              THEN {"RangeError"} ELSE {})

\* lineMeta = lines.map(...) when no call throws
LineMetaOf(ls) ==
    [j \in 1..Len(ls) |->
        [line |-> ls[j], lineStr |-> buildLineText(ls[j].items),
         maxLineHeight |-> MaxHeight(ls[j].items)]]

PAGE_NUMBER_BAND_RATIO == FromHundredths(10)
PAGE_NUMBER_MAX_FONT_RATIO == FromHundredths(95)
PAGE_NUMBER_MIN_REPEAT_RATIO == FromHundredths(40)

\* bandSize = pageHeight * PAGE_NUMBER_BAND_RATIO
bandSize(pageHeight) == FMul(pageHeight, PAGE_NUMBER_BAND_RATIO)

\* meta.line.y <= bandSize
InTopBand(y, pageHeight) == FLessEq(y, bandSize(pageHeight))

\* meta.line.y >= pageHeight - bandSize
InBottomBand(y, pageHeight) == FGreaterEq(y, FSub(pageHeight, bandSize(pageHeight)))

\* pageNumberYBucket = Math.max(4, bodyHeight * 0.5)
pageNumberYBucket(bh) == MathMax(Four, FMul(bh, Lit_0_5))

\* yBucket = Math.round(meta.line.y / pageNumberYBucket)
YBucket(y, bh) == MathRound(FDiv(y, pageNumberYBucket(bh)))

\* whether the forEach of lines 335-359 files line idx in a cluster
IsMarkerCandidate(meta, pageHeights, bh) ==
    LET pageHeight == pageHeights[meta.line.page]
    IN  /\ meta.lineStr # <<>>
        /\ ~IsZero(pageHeight)
        /\ (InTopBand(meta.line.y, pageHeight) \/ InBottomBand(meta.line.y, pageHeight))
        /\ ~FGreaterEq(meta.maxLineHeight, FMul(bh, PAGE_NUMBER_MAX_FONT_RATIO))
        /\ normalizePageMarker(meta.lineStr) # <<>>

\* the cluster key `${normalized}|${band}|${yBucket}`: its three parts
ClusterKey(meta, pageHeights, bh) ==
    << normalizePageMarker(meta.lineStr),
       IF InTopBand(meta.line.y, pageHeights[meta.line.page]) THEN "top" ELSE "bottom",
       YBucket(meta.line.y, bh) >>

\* a repeat count rounded down
MinRepeatFloor(numPages) ==
    FToInt(MathFloor(FMul(FromInt(numPages), PAGE_NUMBER_MIN_REPEAT_RATIO)))

\* minRepeat = Math.ceil(pdf.numPages * PAGE_NUMBER_MIN_REPEAT_RATIO)
MinRepeat(numPages) ==
    FToInt(MathCeil(FMul(FromInt(numPages), PAGE_NUMBER_MIN_REPEAT_RATIO)))

\* the cluster key of every line, in line order; <<>> for a line that the
\* forEach of lines 335-359 files in no cluster
RECURSIVE ClusterKeysFrom(_, _, _, _)
ClusterKeysFrom(metas, j, pageHeights, bh) ==
    IF j > Len(metas) THEN <<>>
    ELSE << IF IsMarkerCandidate(metas[j], pageHeights, bh)
            THEN ClusterKey(metas[j], pageHeights, bh)
            ELSE <<>> >>
         \o ClusterKeysFrom(metas, j + 1, pageHeights, bh)

\* cluster.pages of the cluster of line j
ClusterPages(metas, keys, j) == {metas[k].line.page : k \in {k \in 1..Len(keys) : keys[k] = keys[j]}}

\* the indices of the clusters that are on at least minRepeat pages
RecurringLines(metas, keys, minRepeat) ==
    {j \in 1..Len(keys) :
        keys[j] # <<>> /\ Cardinality(ClusterPages(metas, keys, j)) >= minRepeat}

\* pageNumberLineIndices (lines 334-367)
PageNumberLineIndices(metas, pageHeights, numPages, bh) ==
    RecurringLines(metas, ClusterKeysFrom(metas, 1, pageHeights, bh),
                   Max(2, MinRepeat(numPages)))

PrefixH2 == <<HASH, HASH, SP>>
PrefixH3 == <<HASH, HASH, HASH, SP>>
RuleLine == <<HYPHEN, HYPHEN, HYPHEN>>

\* headerThreshold = bodyHeight * 1.15
headerThreshold(bh) == FMul(bh, Lit_1_15)

\* subHeaderThreshold = bodyHeight * 1.4
subHeaderThreshold(bh) == FMul(bh, Lit_1_4)

\* a classifier that tests the lower threshold first, so that "## " is never
\* given
HeaderPrefixLowFirst(maxLineHeight, bh) ==
    IF FGreaterEq(maxLineHeight, headerThreshold(bh)) THEN PrefixH3
    ELSE IF FGreaterEq(maxLineHeight, subHeaderThreshold(bh)) THEN PrefixH2
    ELSE <<>>

\* the header prefix of lines 402-407
HeaderPrefix(maxLineHeight, bh) ==
    IF FGreaterEq(maxLineHeight, subHeaderThreshold(bh)) THEN PrefixH2
    ELSE IF FGreaterEq(maxLineHeight, headerThreshold(bh)) THEN PrefixH3
    ELSE <<>>

\* /^[•●\-]/
StartsWithBullet(s) == s # <<>> /\ s[1] \in {BULLET, BLACKCIRCLE, HYPHEN}

\* /^\d+\./
StartsWithNumber(s) ==
    LET d == SpanDigit(s, 1) IN d >= 1 /\ d + 1 <= Len(s) /\ s[d + 1] = DOT

\* lineStr after list detection (lines 410-415)
ListRewrite(s) ==
    IF StartsWithBullet(s)
    THEN <<HYPHEN, SP>> \o SubSeq(s, 2 + SpanSpace(s, 2), Len(s))
    ELSE s

\* a list detection that clears the prefix of bullet lines only
ListPrefixBulletOnly(s, prefix) == IF StartsWithBullet(s) THEN <<>> ELSE prefix

\* prefix after list detection
ListPrefix(s, prefix) == IF StartsWithBullet(s) \/ StartsWithNumber(s) THEN <<>> ELSE prefix

\* const isList = /^(?:[-*•●]|\d+\.)/.test(lineStr)
IsListItem(s) ==
    (s # <<>> /\ s[1] \in {HYPHEN, STAR, BULLET, BLACKCIRCLE}) \/ StartsWithNumber(s)

\* the -1 that lastY starts with
NoLastY == FromInt(-1)

\* the state of the classifier loop before its first line (lines 219-223);
\* gapNull says that recentGap is null
ClassifierStart ==
    [md |-> <<>>, lastY |-> NoLastY, lastPage |-> -1, gapNull |-> TRUE, recentGap |-> Zero,
     denseRun |-> 0]

\* an iteration that takes the gap to the line before also across pages
ClassifyLineAcrossPages(st, meta, suppressed, bh) ==
    LET line == meta.line
        samePage == st.lastY # NoLastY
        gap == FSub(line.y, st.lastY)
        md1 == IF samePage /\ FGreater(gap, FMul(bh, Lit_1_5)) THEN Append(st.md, <<>>) ELSE st.md
        dense1 == IF samePage /\ FLess(gap, FMul(bh, Lit_0_9)) THEN st.denseRun + 1 ELSE 0
        st1 == [st EXCEPT !.md = md1, !.denseRun = dense1, !.gapNull = ~samePage,
                          !.recentGap = IF samePage THEN gap ELSE Zero,
                          !.lastY = line.y, !.lastPage = line.page]
        prefix == ListPrefix(meta.lineStr, HeaderPrefix(meta.maxLineHeight, bh))
        lineStr == ListRewrite(meta.lineStr)
        dense2 == IF IsListItem(lineStr) THEN dense1 + 1 ELSE dense1
        rule == /\ ~st1.gapNull
                /\ FGreater(st1.recentGap, FMul(bh, Lit_1_8))
                /\ prefix # <<>>
                /\ dense2 < 3
                /\ md1 # <<>>
                /\ Last(md1) # RuleLine
        md2 == IF rule
               THEN (IF Last(md1) # <<>> THEN Append(md1, <<>>) ELSE md1) \o <<RuleLine, <<>>>>
               ELSE md1
    IN  IF meta.lineStr = <<>> \/ suppressed THEN st1
        ELSE [st1 EXCEPT !.denseRun = dense2, !.md = Append(md2, prefix \o lineStr)]

\* one iteration of lineMeta.forEach (lines 369-440) on line idx
ClassifyLine(st, meta, suppressed, bh) ==
    LET line == meta.line
        samePage == st.lastPage = line.page /\ st.lastY # NoLastY
        gap == FSub(line.y, st.lastY)
        md1 == IF samePage /\ FGreater(gap, FMul(bh, Lit_1_5)) THEN Append(st.md, <<>>) ELSE st.md
        dense1 == IF samePage /\ FLess(gap, FMul(bh, Lit_0_9)) THEN st.denseRun + 1 ELSE 0
        st1 == [st EXCEPT !.md = md1, !.denseRun = dense1, !.gapNull = ~samePage,
                          !.recentGap = IF samePage THEN gap ELSE Zero,
                          !.lastY = line.y, !.lastPage = line.page]
        prefix == ListPrefix(meta.lineStr, HeaderPrefix(meta.maxLineHeight, bh))
        lineStr == ListRewrite(meta.lineStr)
        dense2 == IF IsListItem(lineStr) THEN dense1 + 1 ELSE dense1
        rule == /\ ~st1.gapNull
                /\ FGreater(st1.recentGap, FMul(bh, Lit_1_8))
                /\ prefix # <<>>
                /\ dense2 < 3
                /\ md1 # <<>>
                /\ Last(md1) # RuleLine
        md2 == IF rule
               THEN (IF Last(md1) # <<>> THEN Append(md1, <<>>) ELSE md1) \o <<RuleLine, <<>>>>
               ELSE md1
    IN  IF meta.lineStr = <<>> \/ suppressed THEN st1
        ELSE [st1 EXCEPT !.denseRun = dense2, !.md = Append(md2, prefix \o lineStr)]

RECURSIVE ClassifyFrom(_, _, _, _, _)
ClassifyFrom(st, metas, idx, marked, bh) ==
    IF idx > Len(metas) THEN st
    ELSE ClassifyFrom(ClassifyLine(st, metas[idx], idx \in marked, bh), metas, idx + 1, marked, bh)

\* markdownLines after the classifier loop
MarkdownLinesOf(metas, marked, bh) == ClassifyFrom(ClassifierStart, metas, 1, marked, bh).md

----------------------------------------------------------------------------
(* Title, placeholder and footer: src/README.md 151-156, 528-536 *)

\* "[No text detected. This may be an image-only PDF.]"
NoTextNotice ==
    <<91, 78, 111, 32, 116, 101, 120, 116, 32, 100, 101, 116, 101, 99, 116, 101,
    100, 46, 32, 84, 104, 105, 115, 32, 109, 97, 121, 32, 98, 101, 32, 97, 110,
    32, 105, 109, 97, 103, 101, 45, 111, 110, 108, 121, 32, 80, 68, 70, 46, 93>>

\* "File converted using pdf2txt\nhttps://github.com/SPACESODA/pdf2txt\n\n"
FooterText ==
    <<70, 105, 108, 101, 32, 99, 111, 110, 118, 101, 114, 116, 101, 100, 32,
    117, 115, 105, 110, 103, 32, 112, 100, 102, 50, 116, 120, 116, 10, 104, 116,
    116, 112, 115, 58, 47, 47, 103, 105, 116, 104, 117, 98, 46, 99, 111, 109,
    47, 83, 80, 65, 67, 69, 83, 79, 68, 65, 47, 112, 100, 102, 50, 116, 120,
    116, 10, 10>>

\* position of the last '.' of name, 0 when there is none
RECURSIVE LastDot(_, _)
LastDot(name, i) == IF i = 0 THEN 0 ELSE IF name[i] = DOT THEN i ELSE LastDot(name, i - 1)

\* a title that keeps the extension
KeepExtension(name) == name

\* file.name.replace(/\.[^/.]+$/, "")
StripExtension(name) ==
    LET p == LastDot(name, Len(name))
    IN  IF p > 0 /\ p < Len(name) /\ \A j \in (p + 1)..Len(name) : name[j] # SLASH
        THEN SubSeq(name, 1, p - 1)
        ELSE name

\* the return value of the empty branch (line 155)
PlaceholderOf(name) == <<HASH, SP>> \o StripExtension(name) \o <<NL, NL>> \o NoTextNotice

\* finalMD (lines 529-536)
FinalMDOf(name, raw) ==
    LET head == <<HASH, SP>> \o StripExtension(name) \o <<NL, NL>> \o raw
        padded == IF EndsWith(head, <<NL, NL>>) THEN head ELSE head \o <<NL, NL>>
    IN  padded \o RuleLine \o <<NL, NL>> \o FooterText

----------------------------------------------------------------------------
(* processPDF: src/README.md 79-544.  One action per resumption of the async *)
(* function; the code between the last await and the return runs without    *)
(* interruption and is cut into its stages, during which nothing else runs. *)

Pending == [kind |-> "pending", name |-> "", value |-> <<>>]
Resolved(text) == [kind |-> "resolved", name |-> "", value |-> text]
Rejected(errName) == [kind |-> "rejected", name |-> errName, value |-> <<>>]

NumPages == Len(file.pages)

\* pageHeights, once every page was visited
RECURSIVE PageHeightsFrom(_, _)
PageHeightsFrom(pages, i) ==
    IF i > Len(pages) THEN <<>>
    ELSE <<FromHundredths(pages[i].height)>> \o PageHeightsFrom(pages, i + 1)

PageHeights == PageHeightsFrom(file.pages, 1)

analysisVars == <<bodyHeight, lines, lineMeta, markdownLines, rawIn, rawMD>>

\* the finally block (lines 538-543) and the settling of the promise
Settle(outcome) ==
    /\ result' = outcome
    /\ pc' = "done"
    /\ destroyed' = IF pdfOpen THEN destroyed + 1 ELSE destroyed
    /\ pdfOpen' = FALSE

\* controller.abort() while the call is waiting
AbortSignal ==
    /\ pc \in {"start", "arrayBuffer", "getDocument", "getPage", "getTextContent"}
    /\ ~aborted
    /\ aborted' = TRUE
    /\ UNCHANGED <<file, pc, pageNo, allItems, pdfOpen, destroyed, cleaned, pagesLoaded, result>>
    /\ UNCHANGED analysisVars
    /\ UNCHANGED batchVars

\* the call: throwIfAborted(), then file.arrayBuffer() is awaited (lines 94-95)
Invoke ==
    /\ pc = "start"
    /\ IF aborted
       THEN Settle(Rejected("AbortError"))
       ELSE pc' = "arrayBuffer" /\ UNCHANGED <<result, destroyed, pdfOpen>>
    /\ UNCHANGED <<file, aborted, pageNo, allItems, cleaned, pagesLoaded>>
    /\ UNCHANGED analysisVars
    /\ UNCHANGED batchVars

\* file.arrayBuffer() settles; getDocument is awaited (lines 95-103)
BufferRead ==
    /\ pc = "arrayBuffer"
    /\ IF file.readFails
       THEN Settle(Rejected("NotReadableError"))
       ELSE pc' = "getDocument" /\ UNCHANGED <<result, destroyed, pdfOpen>>
    /\ UNCHANGED <<file, aborted, pageNo, allItems, cleaned, pagesLoaded>>
    /\ UNCHANGED analysisVars
    /\ UNCHANGED batchVars

\* the head of the page loop for page i (lines 111-113): after the last page
\* the analysis starts, otherwise throwIfAborted() and pdf.getPage(i) is awaited
EnterPage(i, open) ==
    IF i > NumPages
    THEN /\ pc' = "analyze"
         /\ pageNo' = i
         /\ pdfOpen' = open
         /\ UNCHANGED <<result, destroyed>>
    ELSE IF aborted
    THEN /\ result' = Rejected("AbortError")
         /\ pc' = "done"
         /\ destroyed' = destroyed + 1
         /\ pdfOpen' = FALSE
         /\ pageNo' = i
    ELSE /\ pc' = "getPage"
         /\ pageNo' = i
         /\ pdfOpen' = open
         /\ UNCHANGED <<result, destroyed>>

\* getDocument settles (line 103) and the page loop is entered
DocumentOpened ==
    /\ pc = "getDocument"
    /\ IF file.openError # "none"
       THEN Settle(Rejected(file.openError)) /\ UNCHANGED pageNo
       ELSE EnterPage(1, TRUE)
    /\ UNCHANGED <<file, aborted, allItems, cleaned, pagesLoaded>>
    /\ UNCHANGED analysisVars
    /\ UNCHANGED batchVars

\* pdf.getPage(i) settles; page.getTextContent() is awaited (lines 113-116)
PageLoaded ==
    /\ pc = "getPage"
    /\ pc' = "getTextContent"
    /\ pagesLoaded' = pagesLoaded \cup {pageNo}
    /\ UNCHANGED <<file, aborted, pageNo, allItems, pdfOpen, destroyed, cleaned, result>>
    /\ UNCHANGED analysisVars
    /\ UNCHANGED batchVars

\* getTextContent settles: the items of the page are ingested, the page is
\* cleaned up and the loop goes on (lines 118-149)
TextContentRead ==
    /\ pc = "getTextContent"
    /\ LET page == file.pages[pageNo]
           ing == IngestFrom(page.items, 1, pageNo, page.height, 0, aborted)
       IN  IF ing.outcome = "ok"
           THEN /\ allItems' = allItems \o ing.items
                /\ cleaned' = cleaned \cup {pageNo}
                /\ EnterPage(pageNo + 1, pdfOpen)
           ELSE /\ allItems' = allItems \o ing.items
                /\ cleaned' = cleaned
                /\ Settle(Rejected(IF ing.outcome = "abort" THEN "AbortError" ELSE "Error"))
                /\ UNCHANGED pageNo
    /\ UNCHANGED <<file, aborted, pagesLoaded>>
    /\ UNCHANGED analysisVars
    /\ UNCHANGED batchVars

\* lines 151-156: the empty branch returns the placeholder
Analyze ==
    /\ pc = "analyze"
    /\ IF allItems = <<>>
       THEN Settle(Resolved(PlaceholderOf(file.name)))
       ELSE pc' = "estimate" /\ UNCHANGED <<result, destroyed, pdfOpen>>
    /\ UNCHANGED <<file, aborted, pageNo, allItems, cleaned, pagesLoaded>>
    /\ UNCHANGED analysisVars
    /\ UNCHANGED batchVars

\* lines 162-175
EstimateBody ==
    /\ pc = "estimate"
    /\ bodyHeight' = BodyHeightOf(allItems)
    /\ pc' = "sort"
    /\ UNCHANGED <<file, aborted, pageNo, allItems, pdfOpen, destroyed, cleaned, pagesLoaded, result>>
    /\ UNCHANGED <<lines, lineMeta, markdownLines, rawIn, rawMD>>
    /\ UNCHANGED batchVars

\* lines 185-216
SortAndGroup ==
    /\ pc = "sort"
    /\ \E sorted \in SortOutcomes(allItems) :
          /\ allItems' = sorted
          /\ lines' = GroupLines(sorted, bodyHeight)
    /\ pc' = "lineMeta"
    /\ UNCHANGED <<file, aborted, pageNo, pdfOpen, destroyed, cleaned, pagesLoaded, result>>
    /\ UNCHANGED <<bodyHeight, lineMeta, markdownLines, rawIn, rawMD>>
    /\ UNCHANGED batchVars

\* lines 328-332; a RangeError of line 330 rejects the promise after the
\* finally block
BuildLineMeta ==
    /\ pc = "lineMeta"
    /\ \E outcome \in LineMetaOutcomes(lines) :
          IF outcome = "ok"
          THEN /\ lineMeta' = LineMetaOf(lines)
               /\ pc' = "classify"
               /\ UNCHANGED <<result, destroyed, pdfOpen>>
          ELSE /\ lineMeta' = lineMeta
               /\ Settle(Rejected("RangeError"))
    /\ UNCHANGED <<file, aborted, pageNo, allItems, cleaned, pagesLoaded>>
    /\ UNCHANGED <<bodyHeight, lines, markdownLines, rawIn, rawMD>>
    /\ UNCHANGED batchVars

\* lines 334-440
Classify ==
    /\ pc = "classify"
    /\ markdownLines' =
          MarkdownLinesOf(lineMeta,
                          PageNumberLineIndices(lineMeta, PageHeights, NumPages, bodyHeight),
                          bodyHeight)
    /\ pc' = "join"
    /\ UNCHANGED <<file, aborted, pageNo, allItems, pdfOpen, destroyed, cleaned, pagesLoaded, result>>
    /\ UNCHANGED <<bodyHeight, lines, lineMeta, rawIn, rawMD>>
    /\ UNCHANGED batchVars

\* lines 444-445: the join, then throwIfAborted()
JoinLines ==
    /\ pc = "join"
    /\ rawMD' = JoinWith(markdownLines, <<NL>>)
    /\ rawIn' = rawMD
    /\ IF aborted
       THEN Settle(Rejected("AbortError"))
       ELSE pc' = "hyphenate" /\ UNCHANGED <<result, destroyed, pdfOpen>>
    /\ UNCHANGED <<file, aborted, pageNo, allItems, cleaned, pagesLoaded>>
    /\ UNCHANGED <<bodyHeight, lines, lineMeta, markdownLines>>
    /\ UNCHANGED batchVars

\* line 448
Hyphenate ==
    /\ pc = "hyphenate"
    /\ rawIn' = rawMD
    /\ rawMD' = HyphenationMerge(rawMD)
    /\ pc' = "merge"
    /\ UNCHANGED <<file, aborted, pageNo, allItems, pdfOpen, destroyed, cleaned, pagesLoaded, result>>
    /\ UNCHANGED <<bodyHeight, lines, lineMeta, markdownLines>>
    /\ UNCHANGED batchVars

\* line 523
MergeWrapped ==
    /\ pc = "merge"
    /\ rawIn' = rawMD
    /\ rawMD' = mergeWrappedLines(rawMD)
    /\ pc' = "collapse"
    /\ UNCHANGED <<file, aborted, pageNo, allItems, pdfOpen, destroyed, cleaned, pagesLoaded, result>>
    /\ UNCHANGED <<bodyHeight, lines, lineMeta, markdownLines>>
    /\ UNCHANGED batchVars

\* line 526
Collapse ==
    /\ pc = "collapse"
    /\ rawIn' = rawMD
    /\ rawMD' = CollapseBlankLines(rawMD)
    /\ pc' = "finalize"
    /\ UNCHANGED <<file, aborted, pageNo, allItems, pdfOpen, destroyed, cleaned, pagesLoaded, result>>
    /\ UNCHANGED <<bodyHeight, lines, lineMeta, markdownLines>>
    /\ UNCHANGED batchVars

\* lines 529-543
Finalize ==
    /\ pc = "finalize"
    /\ Settle(Resolved(FinalMDOf(file.name, rawMD)))
    /\ UNCHANGED <<file, aborted, pageNo, allItems, cleaned, pagesLoaded>>
    /\ UNCHANGED analysisVars
    /\ UNCHANGED batchVars

----------------------------------------------------------------------------
(* Initial values shared by the specifications *)

\* no batch is running and the queue is empty
BatchIdle ==
    /\ files = <<>>
    /\ isProcessing = FALSE
    /\ cpc = "idle"
    /\ item = 0
    /\ controllers = {}
    /\ signals = {}
    /\ inflight = {}
    /\ nextId = 0
    /\ engineReady = FALSE
    /\ idsAtStart = 0

\* "t.pdf"
PlainName == <<116, 46, 112, 100, 102>>

\* a document of one empty page, for the specifications that start processPDF
\* at one of its stages
StageDoc ==
    [name |-> PlainName, pages |-> <<[height |-> 80000, items |-> <<>>]>>,
     readFails |-> FALSE, openError |-> "none"]

\* the fragment that ingestion pushes for the text str shown at (x, y) on a
\* page, with height h and width w, all given in hundredths
Fragment(str, x, y, h, w, page) ==
    [str |-> str, x |-> FromHundredths(x), y |-> FromHundredths(y), h |-> FromHundredths(h),
     w |-> FromHundredths(w), page |-> page, isWhitespace |-> Trim(str) = <<>>]

\* the sequences over S of length 1..n
SeqsUpTo(S, n) == UNION {[1..k -> S] : k \in 1..n}

----------------------------------------------------------------------------
(* SpecText: the text normalizer (lines 444-536) on the output lines of the *)
(* classifier                                                               *)

MaxLines == 3
MaxBlankRun == 4

\* output lines of the classifier: "", "a", "a-", "b.", "## H", "- x", "1. x",
\* "1.x" and a CJK line
SampleLines ==
    { <<>>, <<97>>, <<97, 45>>, <<98, 46>>, <<HASH, HASH, SP, 72>>, <<HYPHEN, SP, 120>>,
      <<49, DOT, SP, 120>>, <<49, DOT, 120>>, <<26481>> }

\* "a", n blank lines, "b": the classifier pushes a blank line before every
\* skipped or emitted line that follows a wide gap
BlankRunLines(n) == <<<<97>>>> \o [j \in 1..n |-> <<>>] \o <<<<98, 46>>>>

\* the inputs of SpecText of at most m lines
TextInputs(m) == SeqsUpTo(SampleLines, m) \cup {BlankRunLines(n) : n \in 0..MaxBlankRun}

TextInit ==
    /\ file = StageDoc
    /\ aborted = FALSE
    /\ pc = "join"
    /\ pageNo = 2
    /\ allItems = <<>>
    /\ pdfOpen = TRUE
    /\ destroyed = 0
    /\ cleaned = {1}
    /\ pagesLoaded = {1}
    /\ bodyHeight = FromInt(12)
    /\ lines = <<>>
    /\ lineMeta = <<>>
    /\ markdownLines \in TextInputs(MaxLines)
    /\ rawIn = <<>>
    /\ rawMD = <<>>
    /\ result = Pending
    /\ BatchIdle

TextNext == JoinLines \/ Hyphenate \/ MergeWrapped \/ Collapse \/ Finalize

SpecText == TextInit /\ [][TextNext]_vars

\* C2: the hyphenation merge is idempotent: applied to its own result, which
\* rawMD holds when the hard-wrap merge is about to run, it changes nothing.
C2_HyphenationIdempotent == pc = "merge" => HyphenationMerge(rawMD) = rawMD

\* a line that the hard-wrap merge must keep apart: blank, heading or list
\* item.  A list item is a line the classifier counts as one (line 417): it
\* starts with a bullet or with digits and a dot
IsStructural(l) == Trim(l) = <<>> \/ isHeading(l) \/ IsListItem(l)

\* the lines ls grouped into runs, cut after every line in cuts, each run
\* joined by single spaces
RECURSIVE RunsJoined(_, _, _, _)
RunsJoined(ls, cuts, i, cur) ==
    IF i > Len(ls) THEN <<cur>>
    ELSE IF (i - 1) \in cuts THEN <<cur>> \o RunsJoined(ls, cuts, i + 1, ls[i])
    ELSE RunsJoined(ls, cuts, i + 1, cur \o <<SP>> \o ls[i])

\* the breaks of ls that C3 wants kept are kept by cuts: both breaks of every
\* blank, heading or list-item line
KeepsStructural(ls, cuts) ==
    \A i \in 1..Len(ls) :
        IsStructural(ls[i]) =>
            /\ (i = 1 \/ (i - 1) \in cuts)
            /\ (i = Len(ls) \/ i \in cuts)

\* C3: the result of the hard-wrap merge is its input with some line
\* breaks replaced by a space, and every break next to a blank line, a heading
\* line or a list-item line is kept, so that each such line is a line of the
\* result.
C3_EveryStructuralLineKept ==
    pc = "collapse" =>
        LET ls == SplitLines(rawIn)
        IN  \E cuts \in SUBSET (1..(Len(ls) - 1)) :
                /\ KeepsStructural(ls, cuts)
                /\ rawMD = JoinWith(RunsJoined(ls, cuts, 2, ls[1]), <<NL>>)

\* C8: the blank-line collapse is a no-op on the normalizer's output: rawMD
\* after line 526 contains no run that the collapse would rewrite.
C8_CollapseIsNoOpOnOutput == pc = "finalize" => CollapseBlankLines(rawMD) = rawMD

\* C8 witness: the collapse has rewritten a run of blank lines
C8_Witness == pc = "finalize" /\ rawIn # rawMD

----------------------------------------------------------------------------
(* SpecHeights: the body-size estimator (lines 162-175) on bounded fragment *)
(* lists                                                                    *)

MaxFrags == 4

\* fragment heights in hundredths: 11.96, 12, 12.04 round to 12; 12.06, 12.1,
\* 12.14 round to 12.1; 4.35, whose tenfold is the number 43.5, rounds to 4.4; 24
HeightSamples == {1196, 1200, 1204, 1206, 1210, 1214, 435, 2400}

\* an ingested fragment "a" of height h
HeightItem(h) == Fragment(<<97>>, 1000, 10000, h, 600, 1)

HeightsInit ==
    /\ file = StageDoc
    /\ aborted = FALSE
    /\ pc = "estimate"
    /\ pageNo = 2
    /\ \E n \in 1..MaxFrags :
          \E hs \in [1..n -> HeightSamples] : allItems = [j \in 1..n |-> HeightItem(hs[j])]
    /\ pdfOpen = TRUE
    /\ destroyed = 0
    /\ cleaned = {1}
    /\ pagesLoaded = {1}
    /\ bodyHeight = Zero
    /\ lines = <<>>
    /\ lineMeta = <<>>
    /\ markdownLines = <<>>
    /\ rawIn = <<>>
    /\ rawMD = <<>>
    /\ result = Pending
    /\ BatchIdle

HeightsNext == EstimateBody

SpecHeights == HeightsInit /\ [][HeightsNext]_vars

\* how often the rounded height k occurs in hs, and where it occurs first
Occurrences(hs, k) == Cardinality({j \in 1..Len(hs) : hs[j] = k})
FirstOccurrence(hs, k) == CHOOSE j \in 1..Len(hs) : hs[j] = k /\ \A i \in 1..(j - 1) : hs[i] # k

\* the rounded heights that no other one outnumbers
MostFrequentOf(hs) ==
    {k \in {hs[j] : j \in 1..Len(hs)} :
        \A j \in 1..Len(hs) : Occurrences(hs, hs[j]) <= Occurrences(hs, k)}

\* bh is the member of most that the fixed rule selects
SelectedFrom(bh, hs, most) ==
    /\ bh \in most
    /\ IF \E k \in most : FIsInt(k)
       THEN \A k \in most : FIsInt(k) => FLessEq(bh, k)
       ELSE \A k \in most : FirstOccurrence(hs, bh) <= FirstOccurrence(hs, k)

IsModeOf(bh, hs) == SelectedFrom(bh, hs, MostFrequentOf(hs))

MostFrequent == MostFrequentOf(HeightKeys(allItems))

\* C6: bodyHeight is a rounded fragment height that no other rounded height
\* outnumbers, and a tie is resolved by a fixed rule of the fragment list: the
\* smallest whole-number height among the most frequent ones, otherwise the most
\* frequent height that occurs first.
C6_BodyHeightIsMode == pc = "sort" => IsModeOf(bodyHeight, HeightKeys(allItems))

\* C6 witness: the estimator ran on fragments whose two most frequent rounded
\* heights tie, and the one that occurs first in the list did not win
C6_Witness ==
    /\ pc = "sort"
    /\ Cardinality(MostFrequent) = 2
    /\ bodyHeight # RoundHeight(allItems[1].h)

----------------------------------------------------------------------------
(* SpecLine: the line text builder (lines 243-314) on one visual line       *)

MaxLineFrags == 3

\* fragment texts: "New", "York", two CJK ideographs, and a whitespace marker
FragTexts == { <<78, 101, 119>>, <<89, 111, 114, 107>>, <<19996>>, <<20140>>, <<SP>> }

\* horizontal gaps to the previous fragment: 0, 3, 4 and 20 units
GapSamples == {0, 300, 400, 2000}

\* width of a fragment: 6 units per character, 3 for a whitespace marker
FragWidth(str) == IF Trim(str) = <<>> THEN 300 ELSE 600 * Len(str)

\* the fragments of a line with the texts strs and the gaps gs between them
RECURSIVE LineItems(_, _, _, _)
LineItems(strs, gs, j, x) ==
    IF j > Len(strs) THEN <<>>
    ELSE <<Fragment(strs[j], x, 10000, 1200, FragWidth(strs[j]), 1)>>
         \o LineItems(strs, gs, j + 1,
                      x + FragWidth(strs[j]) + (IF j <= Len(gs) THEN gs[j] ELSE 0))

\* the one line of the fragments its
OneLine(its) == <<[y |-> FromInt(100), items |-> its, page |-> 1]>>

LineInit ==
    /\ file = StageDoc
    /\ aborted = FALSE
    /\ pc = "lineMeta"
    /\ pageNo = 2
    /\ allItems = <<>>
    /\ pdfOpen = TRUE
    /\ destroyed = 0
    /\ cleaned = {1}
    /\ pagesLoaded = {1}
    /\ bodyHeight = FromInt(12)
    /\ \E n \in 2..MaxLineFrags :
          \E strs \in [1..n -> FragTexts] :
             \E gs \in [1..(n - 1) -> GapSamples] :
                lines = OneLine(LineItems(strs, gs, 1, 1000))
    /\ lineMeta = <<>>
    /\ markdownLines = <<>>
    /\ rawIn = <<>>
    /\ rawMD = <<>>
    /\ result = Pending
    /\ BatchIdle

LineNext == BuildLineMeta

SpecLine == LineInit /\ [][LineNext]_vars

\* the fragments of the line, each preceded by a space where seps says so
RECURSIVE Spaced(_, _, _)
Spaced(its, seps, j) ==
    IF j > Len(its) THEN <<>>
    ELSE (IF j \in seps THEN <<SP>> ELSE <<>>) \o its[j].str \o Spaced(its, seps, j + 1)

\* fragments j-1 and j are adjacent non-whitespace fragments
AdjacentPair(its, j) == j >= 2 /\ ~its[j - 1].isWhitespace /\ ~its[j].isWhitespace

\* the facing characters of fragments j-1 and j are both CJK
FacingCJK(its, j) ==
    /\ isCJKChar(getLastChar(its[j - 1].str))
    /\ isCJKChar(getFirstChar(its[j].str))

\* the gap before fragment j exceeds threshold
WiderThan(its, j, threshold) == FGreater(GapBetween(its[j - 1], its[j]), threshold)

\* the gap before fragment j exceeds the word-gap threshold of the line
WideGap(its, j) == WiderThan(its, j, wordGapThreshold(NonSpaceOf(its)))

\* the places where a space can stand: between adjacent fragments whose facing
\* characters are not both CJK
SpacePlaces(its) == {j \in 2..Len(its) : AdjacentPair(its, j) /\ ~FacingCJK(its, j)}

\* the places whose gap exceeds threshold
WidePlaces(its, places, threshold) == {j \in places : WiderThan(its, j, threshold)}

\* text is the fragments in order with one space at some of places, at least
\* at those of wide
SpacedAt(text, its, places, wide) ==
    \E seps \in SUBSET places :
        wide \subseteq seps /\ text = Trim(CollapseSpaces(Spaced(its, seps, 1), 1))

SpacedByGaps(text, its, places, threshold) ==
    SpacedAt(text, its, places, WidePlaces(its, places, threshold))

\* C5: the text of a line is its fragments in order, with no space between
\* adjacent fragments whose facing characters are both CJK, whatever the gap,
\* and exactly one space between adjacent fragments whose facing characters are
\* not both CJK and whose gap exceeds the word-gap threshold.
C5_GapRuleSpaces ==
    pc = "classify" =>
        SpacedByGaps(lineMeta[1].lineStr, lineMeta[1].line.items,
                     SpacePlaces(lineMeta[1].line.items),
                     wordGapThreshold(NonSpaceOf(lineMeta[1].line.items)))

\* C5 witness: a line was built from two CJK fragments 20 units apart followed,
\* beyond the threshold, by a Latin fragment
C5_Witness ==
    /\ pc = "classify"
    /\ LET its == lineMeta[1].line.items
       IN  /\ Len(its) = 3
           /\ AdjacentPair(its, 2) /\ FacingCJK(its, 2)
           /\ GapBetween(its[1], its[2]) = FromInt(20)
           /\ AdjacentPair(its, 3) /\ ~FacingCJK(its, 3) /\ WideGap(its, 3)
           /\ lineMeta[1].lineStr = its[1].str \o its[2].str \o <<SP>> \o its[3].str

----------------------------------------------------------------------------
(* SpecPipe: processPDF from the call to the settled promise, on documents  *)

\* the item of textContent.items that shows text str at x, y units from the
\* top of a page of the given height, with font height h and width w
Raw(str, x, yTop, h, w, pageHeight) ==
    [str |-> str, t3 |-> h, t4 |-> x, t5 |-> pageHeight - yTop, width |-> w, bulk |-> 0]

\* the decimal digits of a page index below 100
PageIndexText(i) == IF i < 10 THEN <<48 + i>> ELSE <<48 + (i \div 10), 48 + (i % 10)>>

\* "a", "b." and the line "ab." they make
BodyFragA == <<97>>
BodyFragB == <<98, 46>>
BodyLine == <<97, 98, 46>>
\* "book.pdf"
BookName == <<98, 111, 111, 107, 46, 112, 100, 102>>

\* a page of 800 units with one body line of two fragments mid-page and its
\* page index, in a font of height numH, as the only line of the bottom band
NumberedPage(i, numH) ==
    [height |-> 80000,
     items |-> << Raw(BodyFragA, 7200, 40000, 1200, 600, 80000),
                  Raw(BodyFragB, 7800, 40000, 1200, 1200, 80000),
                  Raw(PageIndexText(i), 30000, 76000, numH, 600 * Len(PageIndexText(i)), 80000) >>]

NumberedDoc(n, numH) ==
    [name |-> BookName, pages |-> [i \in 1..n |-> NumberedPage(i, numH)],
     readFails |-> FALSE, openError |-> "none"]

\* "Chapter 1", "This is body text." and "doc.pdf"
ChapterText == <<67, 104, 97, 112, 116, 101, 114, 32, 49>>
BodyText == <<84, 104, 105, 115, 32, 105, 115, 32, 98, 111, 100, 121, 32, 116, 101, 120, 116, 46>>
DocName == <<100, 111, 99, 46, 112, 100, 102>>

\* one page: "Chapter 1" of height headH, and "This is body text." of height
\* 12 whose baseline lies gap below
ChapterDoc(headH, gap) ==
    [name |-> DocName,
     pages |-> << [height |-> 80000,
                   items |-> << Raw(ChapterText, 7200, 10000, headH, 10800, 80000),
                                Raw(BodyText, 7200, 10000 + gap, 1200, 10800, 80000) >>] >>,
     readFails |-> FALSE, openError |-> "none"]

\* "scan.pdf", "scan", "a.b.pdf"
ScanPdfName == <<115, 99, 97, 110, 46, 112, 100, 102>>
ScanName == <<115, 99, 97, 110>>
DottedName == <<97, 46, 98, 46, 112, 100, 102>>

\* page lists without a fragment: no page, an empty page, a page whose only
\* item has an empty str, two empty pages
EmptyPageLists ==
    { <<>>,
      <<[height |-> 80000, items |-> <<>>]>>,
      <<[height |-> 80000, items |-> <<Raw(<<>>, 0, 0, 1200, 0, 80000)>>]>>,
      <<[height |-> 80000, items |-> <<>>], [height |-> 80000, items |-> <<>>]>> }

EmptyDocs ==
    {[name |-> nm, pages |-> pgs, readFails |-> FALSE, openError |-> "none"] :
        nm \in {ScanPdfName, ScanName, DottedName}, pgs \in EmptyPageLists}

\* documents whose extraction fails: unreadable bytes, a missing passphrase, a
\* malformed file, a page whose text exceeds the cap
FailingDocs ==
    { [StageDoc EXCEPT !.readFails = TRUE],
      [StageDoc EXCEPT !.openError = "PasswordException"],
      [StageDoc EXCEPT !.openError = "InvalidPDFException"],
      [StageDoc EXCEPT !.pages =
          <<[height |-> 80000,
             items |-> << Raw(BodyFragA, 7200, 40000, 1200, 600, 80000),
                          [Raw(BodyFragB, 7800, 40000, 1200, 1200, 80000)
                              EXCEPT !.bulk = MAX_PAGE_TEXT_BYTES] >>]>>] }

PageCounts == {2, 9, 10}
NumberHeights == {800, 1200}
HeadingHeights == {2400, 1400}
ChapterGaps == {1400, 1800, 1900, 3000}

PipeDocs ==
    {NumberedDoc(n, numH) : n \in PageCounts, numH \in NumberHeights}
    \cup {ChapterDoc(headH, gap) : headH \in HeadingHeights, gap \in ChapterGaps}
    \cup EmptyDocs \cup FailingDocs

PipeInit ==
    /\ file \in PipeDocs
    /\ aborted = FALSE
    /\ pc = "start"
    /\ pageNo = 0
    /\ allItems = <<>>
    /\ pdfOpen = FALSE
    /\ destroyed = 0
    /\ cleaned = {}
    /\ pagesLoaded = {}
    /\ bodyHeight = Zero
    /\ lines = <<>>
    /\ lineMeta = <<>>
    /\ markdownLines = <<>>
    /\ rawIn = <<>>
    /\ rawMD = <<>>
    /\ result = Pending
    /\ BatchIdle

PipeNext ==
    \/ AbortSignal \/ Invoke \/ BufferRead \/ DocumentOpened \/ PageLoaded
    \/ TextContentRead \/ Analyze \/ EstimateBody \/ SortAndGroup \/ BuildLineMeta
    \/ Classify \/ JoinLines \/ Hyphenate \/ MergeWrapped \/ Collapse \/ Finalize

SpecPipe == PipeInit /\ [][PipeNext]_vars

\* the number of lines of ls that equal l
CountLines(ls, l) == Cardinality({j \in 1..Len(ls) : ls[j] = l})

\* C1: in the 10-page document whose page indices are set in a font smaller
\* than the body text, no page index is left in the normalized text and the
\* ten mid-page lines are all there.
C1_PageNumbersRemoved ==
    (pc = "done" /\ result.kind = "resolved" /\ file = NumberedDoc(10, 800)) =>
        /\ \A j \in 1..Len(rawMD) : ~IsDigit(rawMD[j])
        /\ CountLines(SplitLines(rawMD), BodyLine) = 10


\* the lines ls hold the lines of seg one after the other from line j on
HoldsAt(ls, j, seg) == j + Len(seg) - 1 <= Len(ls) /\ \A k \in 1..Len(seg) : ls[j + k - 1] = seg[k]
HoldsRun(ls, seg) == \E j \in 1..Len(ls) : HoldsAt(ls, j, seg)

\* the document is ChapterDoc(headH, gap) for some gap
IsChapterDoc(headH) == \E gap \in ChapterGaps : file = ChapterDoc(headH, gap)

\* the distance between the two lines of a ChapterDoc
ChapterGap == file.pages[1].items[1].t5 - file.pages[1].items[2].t5

\* C4 as stated: the output for "Chapter 1" (height 24) above "This is body
\* text." (height 12) has the line "## Chapter 1", a blank line and the body
\* line, one after the other.
C4_BlankLineAfterHeading ==
    (pc = "done" /\ result.kind = "resolved" /\ IsChapterDoc(2400)) =>
        HoldsRun(SplitLines(result.value), <<PrefixH2 \o ChapterText, <<>>, BodyText>>)

\* C4 amended: the output has the heading line ("## " for height 24, "### "
\* for height 14, bodyHeight being 12) and the body line as separate lines, with
\* one blank line between them exactly when the body line lies more than
\* 1.5 * bodyHeight = 18 units below the heading, and nothing between them
\* otherwise.
C4_BlankLineIffWideGap ==
    (pc = "done" /\ result.kind = "resolved" /\ (IsChapterDoc(2400) \/ IsChapterDoc(1400))) =>
        LET heading == (IF IsChapterDoc(2400) THEN <<HASH, HASH, SP>> ELSE <<HASH, HASH, HASH, SP>>)
                       \o ChapterText
            out == SplitLines(result.value)
        IN  /\ bodyHeight = FromInt(12)
            /\ IF ChapterGap > 1800
               THEN HoldsRun(out, <<heading, <<>>, BodyText>>)
               ELSE HoldsRun(out, <<heading, BodyText>>)

\* C4 witness: the scenario was processed with the body line 19 units below the
\* heading, and the output has the blank line
C4_Witness ==
    /\ pc = "done"
    /\ file = ChapterDoc(2400, 1900)
    /\ result.kind = "resolved"
    /\ HoldsRun(SplitLines(result.value), <<PrefixH2 \o ChapterText, <<>>, BodyText>>)

\* "a.b"
DottedTitle == <<97, 46, 98>>

\* the title the placeholder must show for each name of EmptyDocs
ExpectedTitle(name) ==
    IF name = ScanPdfName THEN ScanName ELSE IF name = DottedName THEN DottedTitle ELSE name

\* C7: when the page loop ends without a fragment, processPDF resolves with
\* "# <name without extension>", a blank line and the notice, and none of the
\* later stages has produced anything.
C7_EmptyDocumentPlaceholder ==
    (pc = "done" /\ file \in EmptyDocs /\ pageNo > NumPages) =>
        /\ result = Resolved(<<HASH, SP>> \o ExpectedTitle(file.name) \o <<NL, NL>> \o NoTextNotice)
        /\ bodyHeight = Zero
        /\ lines = <<>>
        /\ lineMeta = <<>>
        /\ markdownLines = <<>>
        /\ rawMD = <<>>

\* C7 witness: "scan.pdf" with a page and no fragment was processed to the end
C7_Witness ==
    /\ pc = "done"
    /\ file \in EmptyDocs
    /\ file.name = ScanPdfName
    /\ NumPages >= 1
    /\ pageNo > NumPages
    /\ result.kind = "resolved"


----------------------------------------------------------------------------
(* The batch queue: src/app/pdf2txt-ui.js 153-394.  An entry of files is    *)
(* {id, file, status, errorMsg, md, canceled}; a message is the sequence of  *)
(* its code units; null is written <<>> for errorMsg and "" for md, and the  *)
(* markdown of a converted file "markdown".  A File carries, besides name,   *)
(* type and size, the way processPDF ends for it when it is not aborted      *)
(* (fate).  One action per event handler and per resumption of convertAll.   *)

MAX_FILE_SIZE == 1024 * 1024 * 1024

\* file.name.toLowerCase().endsWith('.pdf') or a PDF type (lines 211-214)
isPdfFile(f) ==
    \/ f.type \in {"application/pdf", "application/x-pdf"}
    \/ EndsWith(toLowerCase(f.name), <<DOT, 112, 100, 102>>)

\* the way processPDF ends for a file when it is not aborted: its kind and,
\* for the kind TextLimit, the page whose text is over the limit
Fate(kind) == [kind |-> kind, page |-> 0]
TextLimitFate(page) == [kind |-> "TextLimit", page |-> page]

\* String(n) of a natural number
RECURSIVE DecimalOf(_)
DecimalOf(n) == IF n < 10 THEN <<48 + n>> ELSE DecimalOf(n \div 10) \o <<48 + (n % 10)>>

\* `Page ${i} text exceeds 200MB limit` (src/README.md line 131)
TextLimitMessage(i) ==
    <<80, 97, 103, 101, 32>>
        \o DecimalOf(i)
        \o
        <<32, 116, 101, 120, 116, 32, 101, 120, 99, 101, 101, 100, 115, 32, 50, 48, 48,
          77, 66, 32, 108, 105, 109, 105, 116>>

\* "Aborted" (src/README.md line 88)
AbortedMessage == <<65, 98, 111, 114, 116, 101, 100>>

\* "No password given"
NoPasswordMessage ==
    <<78, 111, 32, 112, 97, 115, 115, 119, 111, 114, 100, 32, 103, 105, 118, 101, 110>>

\* "The file could not be read"
NotReadableMessage ==
    <<84, 104, 101, 32, 102, 105, 108, 101, 32, 99, 111, 117, 108, 100, 32, 110, 111,
      116, 32, 98, 101, 32, 114, 101, 97, 100>>

\* "Incorrect password"
IncorrectPasswordMessage ==
    <<73, 110, 99, 111, 114, 114, 101, 99, 116, 32, 112, 97, 115, 115, 119, 111, 114,
      100>>

\* the error processPDF rejects with for a file of this fate; a message is
\* the sequence of its code units, the empty sequence when there is none
ErrorOf(fate) ==
    IF fate.kind = "PasswordException"
    THEN [name |-> "PasswordException", message |-> NoPasswordMessage]
    ELSE IF fate.kind = "NotReadableError"
    THEN [name |-> "NotReadableError", message |-> NotReadableMessage]
    ELSE IF fate.kind = "TextLimit"
    THEN [name |-> "Error", message |-> TextLimitMessage(fate.page)]
    ELSE IF fate.kind = "PasswordMessage"
    THEN [name |-> "Error", message |-> IncorrectPasswordMessage]
    ELSE IF fate.kind = "AbortError"
    THEN [name |-> "AbortError", message |-> AbortedMessage]
    ELSE [name |-> "Error", message |-> <<>>]

\* "password"
PasswordWord == <<112, 97, 115, 115, 119, 111, 114, 100>>

\* err.message && err.message.includes('password')
IncludesPassword(message) == IncludesSeq(message, PasswordWord)

\* 'Password-protected PDF'
PasswordProtectedMessage ==
    <<80, 97, 115, 115, 119, 111, 114, 100, 45, 112, 114, 111, 116, 101, 99, 116, 101,
      100, 32, 80, 68, 70>>

\* 'File not available. Please make sure it is fully downloaded.'
NotAvailableMessage ==
    <<70, 105, 108, 101, 32, 110, 111, 116, 32, 97, 118, 97, 105, 108, 97, 98, 108, 101,
      46, 32, 80, 108, 101, 97, 115, 101, 32, 109, 97, 107, 101, 32, 115, 117, 114, 101,
      32, 105, 116, 32, 105, 115, 32, 102, 117, 108, 108, 121, 32, 100, 111, 119, 110,
      108, 111, 97, 100, 101, 100, 46>>

\* 'Unknown error'
UnknownErrorMessage == <<85, 110, 107, 110, 111, 119, 110, 32, 101, 114, 114, 111, 114>>

\* 'File not available offline (0 bytes)'
OfflineMessage ==
    <<70, 105, 108, 101, 32, 110, 111, 116, 32, 97, 118, 97, 105, 108, 97, 98, 108, 101,
      32, 111, 102, 102, 108, 105, 110, 101, 32, 40, 48, 32, 98, 121, 116, 101, 115,
      41>>

\* 'File over 1 GB'
OverSizeMessage == <<70, 105, 108, 101, 32, 111, 118, 101, 114, 32, 49, 32, 71, 66>>

\* a catch block that knows a password failure by the name of the error only
MessageForNameOnly(err) ==
    IF err.name = "AbortError" THEN <<>>
    ELSE IF err.name = "PasswordException" THEN PasswordProtectedMessage
    ELSE IF err.name \in {"NotReadableError", "NotFoundError"} THEN NotAvailableMessage
    ELSE IF err.message # <<>> THEN err.message
    ELSE UnknownErrorMessage

\* the status the catch block of convertAll writes for err (lines 366-386)
StatusFor(err) == IF err.name = "AbortError" THEN "skipped" ELSE "error"

\* the message the catch block of convertAll writes for err (lines 366-386):
\* null for an AbortError, msg otherwise
MessageFor(err) ==
    IF err.name = "AbortError" THEN <<>>
    ELSE IF err.name = "PasswordException" THEN PasswordProtectedMessage
    ELSE IF err.message # <<>> /\ IncludesPassword(err.message) THEN PasswordProtectedMessage
    ELSE IF err.name \in {"NotReadableError", "NotFoundError"} THEN NotAvailableMessage
    ELSE IF err.message # <<>> THEN err.message
    ELSE UnknownErrorMessage

\* the entry addFiles pushes for f (lines 234-254)
NewEntry(id, f) ==
    [id |-> id, file |-> f,
     status |-> IF f.size = 0 \/ f.size > MAX_FILE_SIZE THEN "skipped" ELSE "queued",
     errorMsg |-> IF f.size = 0 THEN OfflineMessage
                  ELSE IF f.size > MAX_FILE_SIZE THEN OverSizeMessage
                  ELSE <<>>,
     md |-> "", canceled |-> FALSE]

\* prev.some(existing => existing.file.name === f.name && existing.file.size === f.size)
ExistsIn(prev, f) ==
    \E k \in 1..Len(prev) : prev[k].file.name = f.name /\ prev[k].file.size = f.size

\* validFiles.forEach of addFiles (lines 229-255): the queue after the files
\* fs[k..], the ids being handed out from id + 1 on
RECURSIVE PushFrom(_, _, _, _, _)
PushFrom(prev, newQueue, fs, k, id) ==
    IF k > Len(fs) THEN newQueue
    ELSE IF ~isPdfFile(fs[k]) \/ ExistsIn(prev, fs[k]) THEN PushFrom(prev, newQueue, fs, k + 1, id)
    ELSE PushFrom(prev, Append(newQueue, NewEntry(id + 1, fs[k])), fs, k + 1, id + 1)

\* the queue after addFiles(newFiles)
AddedQueue(prev, newFiles, id) == PushFrom(prev, prev, newFiles, 1, id)

\* a removeFile that drops the entry whatever its status
RemovedQueueFilterOnly(prev, id) == SelectSeq(prev, LAMBDA e : e.id # id)

\* the updater of removeFile (lines 279-285)
RemovedQueue(prev, id) ==
    LET mapped == [k \in 1..Len(prev) |->
                      IF prev[k].id # id THEN prev[k]
                      ELSE IF prev[k].status = "processing"
                      THEN [prev[k] EXCEPT !.status = "skipped", !.errorMsg = <<>>, !.canceled = TRUE]
                      ELSE [prev[k] EXCEPT !.status = "removed"]]
    IN  SelectSeq(mapped, LAMBDA e : e.status # "removed")

\* a slip of updateFileStatus: the status is written to every entry
updateEveryFile(prev, id, status, md, errorMsg) ==
    [k \in 1..Len(prev) |->
        IF prev[k].canceled THEN prev[k]
        ELSE [prev[k] EXCEPT !.status = status,
                             !.md = IF md # "" THEN md ELSE prev[k].md,
                             !.errorMsg = errorMsg]]

\* the updater of updateFileStatus (lines 288-294)
updateFileStatus(prev, id, status, md, errorMsg) ==
    [k \in 1..Len(prev) |->
        IF prev[k].id # id THEN prev[k]
        ELSE IF prev[k].canceled THEN prev[k]
        ELSE [prev[k] EXCEPT !.status = status,
                             !.md = IF md # "" THEN md ELSE prev[k].md,
                             !.errorMsg = errorMsg]]

\* a find that looks at the head of the queue only
FirstQueuedHeadOnly(fs) == IF fs # <<>> /\ fs[1].status = "queued" THEN 1 ELSE 0

\* filesRef.current.find(f => f.status === 'queued'): its index, 0 for undefined
FirstQueued(fs) ==
    IF \E k \in 1..Len(fs) : fs[k].status = "queued"
    THEN CHOOSE k \in 1..Len(fs) :
            fs[k].status = "queued" /\ \A j \in 1..(k - 1) : fs[j].status # "queued"
    ELSE 0

\* the head of the while loop, reached with the queue fs and the controllers cs
\* (lines 328-333): the next queued entry is set to processing, gets a
\* controller and the 50 ms pause starts; without one convertAll finishes
\* (lines 392-393)
LoopHead(fs, cs) ==
    LET k == FirstQueued(fs)
    IN  IF k = 0
        THEN /\ files' = fs
             /\ item' = 0
             /\ controllers' = cs
             /\ cpc' = "idle"
             /\ isProcessing' = FALSE
             /\ idsAtStart' = 0
        ELSE /\ files' = updateFileStatus(fs, fs[k].id, "processing", "", <<>>)
             /\ item' = fs[k].id
             /\ controllers' = cs \cup {fs[k].id}
             /\ cpc' = "sleep"
             /\ isProcessing' = isProcessing
             /\ idsAtStart' = idsAtStart

\* the setInterval of lines 167-181 finds pdfjsLib and processPDF
EngineLoaded ==
    /\ ~engineReady
    /\ engineReady' = TRUE
    /\ UNCHANGED <<files, isProcessing, cpc, item, controllers, signals, inflight, nextId>>
    /\ UNCHANGED idsAtStart
    /\ UNCHANGED pipeVars


\* the files a drop or a file dialog can hand to addFiles
BatchFile(name, type, size, fate) == [name |-> name, type |-> type, size |-> size, fate |-> fate]

\* "notes.txt"
TextFileName == <<110, 111, 116, 101, 115, 46, 116, 120, 116>>

\* "b.PDF"
UpperName == <<98, 46, 80, 68, 70>>

\* "big.pdf"
BigName == <<98, 105, 103, 46, 112, 100, 102>>

\* "bad.pdf"
BrokenName == <<98, 97, 100, 46, 112, 100, 102>>

PlainFile == BatchFile(PlainName, "application/pdf", 1000, Fate("ok"))
ProtectedFile == BatchFile(ScanPdfName, "", 2000, Fate("PasswordException"))
WrongPasswordFile == BatchFile(UpperName, "", 3000, Fate("PasswordMessage"))
BigFile == BatchFile(BigName, "application/pdf", 4000, TextLimitFate(2))
BrokenFile == BatchFile(BrokenName, "", 6000, Fate("Error"))
EmptyFile == BatchFile(ScanName, "application/pdf", 0, Fate("ok"))
TextFile == BatchFile(TextFileName, "text/plain", 5000, Fate("ok"))

\* the folders a drop or a file dialog takes its files from: one with two
\* protected documents, one with a document whose second page is over the
\* text limit and a document that pdf.js cannot parse; each holds a document
\* that converts, a file of 0 bytes and a text file
Folders ==
    {{PlainFile, ProtectedFile, WrongPasswordFile, EmptyFile, TextFile},
     {PlainFile, BigFile, BrokenFile, EmptyFile, TextFile}}

\* smaller folders: a document that converts next to one that fails
SmallFolders ==
    {{PlainFile, ProtectedFile, TextFile}, {PlainFile, BigFile}, {PlainFile, BrokenFile}}

\* the file lists handed to addFiles when the queue is fs: at most n files of
\* one of the folders, the folder the files of the queue came from
DropsFor(folders, fs, n) ==
    UNION {SeqsUpTo(F, n) : F \in {G \in folders : \A k \in 1..Len(fs) : fs[k].file \in G}}

\* ids handed out at most (Math.random ids are taken to be fresh)
MaxIds == 3

\* files handed to one addFiles call at most
MaxAdd == 2

\* the entry with this id
EntryOf(id) == files[CHOOSE k \in 1..Len(files) : files[k].id = id]

\* addFiles(newFiles), lines 216-259, with files of one of the folders
AddFilesFrom(folders) ==
    \E newFiles \in DropsFor(folders, files, MaxAdd) :
        /\ nextId + Len(newFiles) <= MaxIds
        /\ files' = AddedQueue(files, newFiles, nextId)
        /\ nextId' = nextId + (Len(files') - Len(files))
        /\ UNCHANGED <<isProcessing, cpc, item, controllers, signals, inflight, engineReady, idsAtStart>>
        /\ UNCHANGED pipeVars

AddFiles == AddFilesFrom(Folders)

AddFewFiles == AddFilesFrom(SmallFolders)

\* removeFile(id) from the button of a row, lines 274-286
RemoveFile ==
    \E k \in 1..Len(files) :
        LET id == files[k].id
        IN  /\ signals' = IF id \in controllers THEN signals \cup {id} ELSE signals
            /\ files' = RemovedQueue(files, id)
            /\ UNCHANGED <<isProcessing, cpc, item, controllers, inflight, nextId, engineReady, idsAtStart>>
            /\ UNCHANGED pipeVars

\* the Clear All button, lines 543-544
ClearAll ==
    /\ ~isProcessing
    /\ files # <<>>
    /\ files' = <<>>
    /\ UNCHANGED <<isProcessing, cpc, item, controllers, signals, inflight, nextId, engineReady, idsAtStart>>
    /\ UNCHANGED pipeVars

\* the Convert button (lines 632-638) calls convertAll, which runs up to the
\* await of waitForEngine (lines 314-316)
ConvertAll ==
    /\ ~isProcessing
    /\ engineReady
    /\ FirstQueued(files) # 0
    /\ isProcessing' = TRUE
    /\ cpc' = "waitForEngine"
    /\ idsAtStart' = nextId
    /\ UNCHANGED <<files, item, controllers, signals, inflight, nextId, engineReady>>
    /\ UNCHANGED pipeVars

\* waitForEngine has returned (lines 316-333)
EngineWaited ==
    /\ cpc = "waitForEngine"
    /\ IF engineReady
       THEN LoopHead(files, controllers)
       ELSE /\ isProcessing' = FALSE
            /\ cpc' = "idle"
            /\ idsAtStart' = 0
            /\ UNCHANGED <<files, item, controllers>>
    /\ UNCHANGED <<signals, inflight, nextId, engineReady>>
    /\ UNCHANGED pipeVars

\* an abort promise with the test of the signal inverted
RaceAbortedInverted(id) == id \notin signals

\* the race is decided for the abort promise once the signal of id has fired
\* (lines 344-358)
RaceAbortedFor(id) == id \in signals

\* the 50 ms pause is over (lines 333-360): processPDF is called, which throws
\* at once when the signal is aborted and waits for file.arrayBuffer()
\* otherwise, and the race is awaited
SleepDone ==
    /\ cpc = "sleep"
    /\ inflight' = IF item \in signals THEN inflight ELSE inflight \cup {item}
    /\ cpc' = "race"
    /\ UNCHANGED <<files, isProcessing, item, controllers, signals, nextId, engineReady, idsAtStart>>
    /\ UNCHANGED pipeVars

\* the race was rejected by the abort promise (lines 365-374, 388-390): the
\* catch block, continue, the finally block and the head of the loop
RaceAborted ==
    /\ cpc = "race"
    /\ RaceAbortedFor(item)
    /\ LoopHead(updateFileStatus(files, item, "skipped", "", <<>>), controllers \ {item})
    /\ UNCHANGED <<signals, inflight, nextId, engineReady>>
    /\ UNCHANGED pipeVars

\* the queue after the race was settled by processPDF for the entry id
\* (lines 360-387)
SettledQueue(fs, id, fate) ==
    IF fate.kind = "ok"
    THEN updateFileStatus(fs, id, "done", "markdown", <<>>)
    ELSE updateFileStatus(fs, id, StatusFor(ErrorOf(fate)), "", MessageFor(ErrorOf(fate)))

\* the processPDF call of id settles.  When convertAll awaits it and the race
\* is still open, convertAll goes on with its result (lines 360-390) and with
\* the head of the loop; the result of a call whose signal has fired is dropped
InvocationSettles ==
    \E id \in inflight :
        /\ inflight' = inflight \ {id}
        /\ IF cpc = "race" /\ item = id /\ ~RaceAbortedFor(id)
           THEN LoopHead(SettledQueue(files, id, EntryOf(id).file.fate), controllers \ {id})
           ELSE UNCHANGED <<files, isProcessing, cpc, item, controllers, idsAtStart>>
        /\ UNCHANGED <<signals, nextId, engineReady>>
        /\ UNCHANGED pipeVars

\* no processPDF call of the single-call model is under way
PipeIdle ==
    /\ file = StageDoc
    /\ aborted = FALSE
    /\ pc = "done"
    /\ pageNo = 0
    /\ allItems = <<>>
    /\ pdfOpen = FALSE
    /\ destroyed = 0
    /\ cleaned = {}
    /\ pagesLoaded = {}
    /\ bodyHeight = Zero
    /\ lines = <<>>
    /\ lineMeta = <<>>
    /\ markdownLines = <<>>
    /\ rawIn = <<>>
    /\ rawMD = <<>>
    /\ result = Pending

BatchInit == PipeIdle /\ BatchIdle

BatchNext ==
    \/ EngineLoaded \/ AddFiles \/ RemoveFile \/ ClearAll \/ ConvertAll
    \/ EngineWaited \/ SleepDone \/ RaceAborted \/ InvocationSettles

SpecBatch == BatchInit /\ [][BatchNext]_vars

\* the queue with the files of the smaller folders, under fair scheduling:
\* the event loop runs every continuation of convertAll that is ready: the
\* timers of waitForEngine and of the 50 ms pause fire and a rejected abort
\* promise resumes the loop.  Nothing makes a processPDF call settle: the read
\* of the file can stall (line 342)
FairNext ==
    \/ EngineLoaded \/ AddFewFiles \/ RemoveFile \/ ClearAll \/ ConvertAll
    \/ EngineWaited \/ SleepDone \/ RaceAborted \/ InvocationSettles

SpecBatchFair ==
    /\ BatchInit
    /\ [][FairNext]_vars
    /\ WF_vars(EngineWaited)
    /\ WF_vars(SleepDone)
    /\ WF_vars(RaceAborted)

\* every processPDF call that was started settles
CallsSettle == WF_vars(InvocationSettles)

\* C9 as stated: at no time are two processPDF calls in flight
C9_OneInFlight == Cardinality(inflight) <= 1

\* C9 amended: at no time are two processPDF calls in flight whose abort signal
\* has not fired; the one call with a live signal is the call convertAll is
\* waiting for, and every other call in flight belongs to a canceled entry.
C9_OneLiveInFlight ==
    /\ Cardinality(inflight \ signals) <= 1
    /\ \A id \in inflight \ signals : cpc = "race" /\ item = id

\* C9 witness: the call of a canceled entry is still in flight next to the call
\* of the entry that is being processed
C9_Witness ==
    /\ Cardinality(inflight) = 2
    /\ Cardinality(inflight \ signals) = 1

IsTerminal(status) == status \in {"done", "error", "skipped"}

\* the entry with this id is in the queue with this status
HasStatus(fs, id, status) == \E k \in 1..Len(fs) : fs[k].id = id /\ fs[k].status = status

\* the entry with this id is in the queue with a terminal status
HasTerminal(fs, id) == \E k \in 1..Len(fs) : fs[k].id = id /\ IsTerminal(fs[k].status)

\* the entry with this id has a terminal status or is no longer in the queue
IsSettled(fs, id) == \A k \in 1..Len(fs) : fs[k].id = id => IsTerminal(fs[k].status)

\* a step in which processPDF fails for entry id: that entry gets status error
\* and a message, no other entry changes except the next queued one, which
\* starts processing, and the batch goes on while an entry is queued
FailureStep(id) ==
    (HasStatus(files, id, "processing") /\ HasStatus(files', id, "error")) =>
        /\ Len(files') = Len(files)
        /\ \A k \in 1..Len(files) :
              IF files[k].id = id THEN files'[k].errorMsg # <<>>
              ELSE IF k = FirstQueued(files)
              THEN files'[k] = [files[k] EXCEPT !.status = "processing"]
              ELSE files'[k] = files[k]
        /\ FirstQueued(files) # 0 => isProcessing' /\ cpc' = "sleep"

\* C10: when processPDF fails for an entry, only that entry gets status error,
\* with a message, and the batch goes on with the next queued entry; when
\* convertAll finishes every entry of the queue has a terminal status; and every
\* entry that is queued while a batch runs is later in the queue as done, error
\* or skipped.
C10_FailureKeepsBatchGoing ==
    /\ [][\A id \in 1..MaxIds : FailureStep(id)]_vars
    /\ [][(isProcessing /\ ~isProcessing') =>
            \A k \in 1..Len(files') : IsTerminal(files'[k].status)]_vars
    /\ \A id \in 1..MaxIds :
          (isProcessing /\ HasStatus(files, id, "queued")) ~> HasTerminal(files, id)

\* C10 amended: the same, the last part for the entries the user does not
\* remove and when every processPDF call that was started settles.
C10_FailureKeepsSettlingBatchGoing ==
    /\ [][\A id \in 1..MaxIds : FailureStep(id)]_vars
    /\ [][(isProcessing /\ ~isProcessing') =>
            \A k \in 1..Len(files') : IsTerminal(files'[k].status)]_vars
    /\ CallsSettle =>
          \A id \in 1..MaxIds :
              (isProcessing /\ HasStatus(files, id, "queued")) ~> IsSettled(files, id)

\* C10 witness: the batch is over; the document with a page over the text
\* limit failed with the message of line 131 and the entry behind it was
\* converted
C10_Witness ==
    /\ ~isProcessing
    /\ \E j, k \in 1..Len(files) :
          /\ j < k
          /\ files[j].file.fate.kind = "TextLimit"
          /\ files[j].status = "error"
          /\ files[j].errorMsg = TextLimitMessage(files[j].file.fate.page)
          /\ files[k].status = "done"


\* the entries of fs with this id
EntriesOf(fs, id) == {fs[k] : k \in {j \in 1..Len(fs) : fs[j].id = id}}

\* the entry e, canceled while it was being processed, as removeFile leaves it
CanceledEntry(e) == [e EXCEPT !.status = "skipped", !.errorMsg = <<>>, !.canceled = TRUE]

\* a step that cancels an entry that is being processed leaves it skipped, with
\* no message and no output
CancelStep(id) ==
    (HasStatus(files, id, "processing") /\ id \in controllers /\ id \notin signals
        /\ id \in signals') =>
            /\ EntriesOf(files', id) = {CanceledEntry(e) : e \in EntriesOf(files, id)}
            /\ \A e \in EntriesOf(files', id) : e.md = ""

\* a canceled entry is changed by no step, except that the user can remove it
CanceledFrozen(id) ==
    \A e \in EntriesOf(files, id) :
        e.canceled => EntriesOf(files', id) \in {{}, {e}}

\* C11: an entry canceled while it is being processed becomes skipped, with no
\* message and no output, and nothing that happens later, the completion or
\* the failure of its processPDF call included, changes it; the user can only
\* remove it.
C11_CanceledStaysSkipped ==
    [][\A id \in 1..MaxIds : CancelStep(id) /\ CanceledFrozen(id)]_vars

\* C11 witness: an entry was canceled while its processPDF call was in flight,
\* the call has not settled yet and convertAll works on another entry
C11_Witness ==
    \E k \in 1..Len(files) :
        /\ files[k].canceled
        /\ files[k].status = "skipped" /\ files[k].errorMsg = <<>> /\ files[k].md = ""
        /\ files[k].id \in inflight
        /\ item # files[k].id
        /\ cpc = "race"


\* C12: whenever processPDF has settled after the document was opened, the
\* document handle was destroyed exactly once and every page handle that
\* pdf.getPage returned was cleaned up.
C12_ResourcesReleased ==
    (pc = "done" /\ pageNo >= 1) =>
        /\ destroyed = 1
        /\ ~pdfOpen
        /\ cleaned = pagesLoaded

----------------------------------------------------------------------------
(* SpecSeq: the estimator and the sequencer (lines 162-216) on bounded      *)
(* fragment lists                                                           *)

MaxSeqFrags == 3

\* a fragment "a" at (x, y) on page p with height h
SeqItem(p, y, x, h) == Fragment(<<97>>, x, y, h, 600, p)

\* body-size fragments at y = 100, 101.5 and 103 (a chain: neighbours are
\* closer than 2 units, the ends are 3 units apart) on page 1 and at y = 100
\* and 101.5 on page 2, two small fragments, 2.5 units apart, that bring the
\* body height down to 4, and two fragments at y = 0.01 and 2.01, whose
\* difference as numbers is 1.9999999999999998
SeqFragments ==
    {SeqItem(1, y, x, 1200) : y \in {10000, 10150, 10300}, x \in {1000, 2000, 3000}}
        \cup {SeqItem(2, y, x, 1200) : y \in {10000, 10150}, x \in {1000, 2000}}
        \cup {SeqItem(1, 10000, 1000, 400), SeqItem(1, 10250, 2000, 400)}
        \cup {SeqItem(1, 1, 1000, 1200), SeqItem(1, 201, 2000, 1200)}

SeqInit ==
    /\ file = StageDoc
    /\ aborted = FALSE
    /\ pc = "estimate"
    /\ pageNo = 3
    /\ \E n \in 1..MaxSeqFrags : allItems \in [1..n -> SeqFragments]
    /\ pdfOpen = TRUE
    /\ destroyed = 0
    /\ cleaned = {1, 2}
    /\ pagesLoaded = {1, 2}
    /\ bodyHeight = Zero
    /\ lines = <<>>
    /\ lineMeta = <<>>
    /\ markdownLines = <<>>
    /\ rawIn = <<>>
    /\ rawMD = <<>>
    /\ result = Pending
    /\ BatchIdle

SeqNext == EstimateBody \/ SortAndGroup

SpecSeq == SeqInit /\ [][SeqNext]_vars

\* how often e occurs in the sequence s
CountIn(s, e) == Cardinality({k \in DOMAIN s : s[k] = e})

SamePieces(s, t) ==
    /\ Len(s) = Len(t)
    /\ \A k \in DOMAIN s : CountIn(s, s[k]) = CountIn(t, s[k])

\* the number of fragments in the lines before line k
RECURSIVE PlacedBefore(_, _)
PlacedBefore(ls, k) ==
    IF k <= 1 THEN 0 ELSE PlacedBefore(ls, k - 1) + Len(ls[k - 1].items)

\* C13: after the sequencer has run, the Lines cut the sorted fragment list
\* into consecutive non-empty pieces that together are the whole list (every
\* fragment is in exactly one Line), the fragments of a Line are on the
\* Line's page, the Line's y is the y of the first fragment of its piece, and
\* every fragment of the Line is closer to that y than
\* max(2, bodyHeight * 0.25).
C13_LinesPartitionFragments ==
    pc = "lineMeta" =>
        /\ PlacedBefore(lines, Len(lines) + 1) = Len(allItems)
        /\ \A k \in 1..Len(lines) :
              LET line == lines[k]
                  first == PlacedBefore(lines, k) + 1
              IN  /\ line.items # <<>>
                  /\ first + Len(line.items) - 1 <= Len(allItems)
                  /\ SamePieces(line.items,
                                SubSeq(allItems, first, first + Len(line.items) - 1))
                  /\ line.y = allItems[first].y
                  /\ \A j \in 1..Len(line.items) :
                        /\ line.items[j].page = line.page
                        /\ FLess(MathAbs(FSub(line.items[j].y, line.y)),
                                 MathMax(Two, FMul(bodyHeight, Lit_0_25)))

\* C13 witness: two Lines on one page, the first with two fragments at
\* different y, and a body height whose quarter is above the floor of 2
C13_Witness ==
    /\ pc = "lineMeta"
    /\ Len(lines) = 2
    /\ lines[1].page = lines[2].page
    /\ Len(lines[1].items) = 2
    /\ lines[1].items[1].y # lines[1].items[2].y
    /\ bodyHeight = FromInt(12)

\* C14: consecutive Lines are in order: the later one is on a later page, or
\* on the same page with an anchor y that is not smaller.
C14_LinesOrdered ==
    pc = "lineMeta" =>
        \A k \in 1..(Len(lines) - 1) :
            \/ lines[k + 1].page > lines[k].page
            \/ lines[k + 1].page = lines[k].page /\ FGreaterEq(lines[k + 1].y, lines[k].y)

----------------------------------------------------------------------------
(* The analysis stages up to the classifier (lines 162-440) on documents    *)
(* whose pages were all read                                                *)

\* allItems after the page loop has read the pages i.. of doc without an
\* abort
RECURSIVE AllItemsFrom(_, _)
AllItemsFrom(doc, i) ==
    IF i > Len(doc.pages) THEN <<>>
    ELSE IngestFrom(doc.pages[i].items, 1, i, doc.pages[i].height, 0, FALSE).items
             \o AllItemsFrom(doc, i + 1)

\* processPDF about to estimate the body height of doc
ClassInit(doc) ==
    /\ file = doc
    /\ aborted = FALSE
    /\ pc = "estimate"
    /\ pageNo = Len(doc.pages) + 1
    /\ allItems = AllItemsFrom(doc, 1)
    /\ pdfOpen = TRUE
    /\ destroyed = 0
    /\ cleaned = 1..Len(doc.pages)
    /\ pagesLoaded = 1..Len(doc.pages)
    /\ bodyHeight = Zero
    /\ lines = <<>>
    /\ lineMeta = <<>>
    /\ markdownLines = <<>>
    /\ rawIn = <<>>
    /\ rawMD = <<>>
    /\ result = Pending
    /\ BatchIdle

ClassNext == EstimateBody \/ SortAndGroup \/ BuildLineMeta \/ Classify

\* the lines the classifier emits text for, and the text lines of its output
SuppressedLines == PageNumberLineIndices(lineMeta, PageHeights, NumPages, bodyHeight)

\* the lines with text that are not in marked, in line order
KeptAmong(marked) ==
    SelectSeq([j \in 1..Len(lineMeta) |-> j],
              LAMBDA j : lineMeta[j].lineStr # <<>> /\ j \notin marked)

KeptLines == KeptAmong(SuppressedLines)

TextLines == SelectSeq(markdownLines, LAMBDA l : l # <<>> /\ l # RuleLine)

\* the text lines text are the lines kept, each written as F gives it
EmittedAs(text, kept, F(_)) ==
    /\ Len(text) = Len(kept)
    /\ \A k \in 1..Len(kept) : text[k] = F(kept[k])

----------------------------------------------------------------------------
(* SpecHead: headings and list items of several sizes on one page           *)

MaxHeadLines == 2

\* "In"
PlainText == <<73, 110>>

\* "- x", a bullet and "x", "1. x", "1x", "* x"
MarkedTexts ==
    { <<HYPHEN, SP, 120>>, <<BULLET, SP, 120>>, <<49, DOT, SP, 120>>, <<49, 120>>,
      <<STAR, SP, 120>> }

\* 12, and the heights just below and at 1.15 and 1.4 times 12
HeadHeights == {1200, 1379, 1380, 1679, 1680}

\* the lines: "In" in every height, the other texts in the heights 12, 13.8
\* and 16.8
HeadLines == ({PlainText} \X HeadHeights) \cup (MarkedTexts \X {1200, 1380, 1680})

\* one page: line j of ls at 25 units below the one before, then the body
\* line "a" "b." of height 12
HeadDoc(ls) ==
    [name |-> DocName,
     pages |-> << [height |-> 80000,
                   items |-> [j \in 1..Len(ls) |->
                                 Raw(ls[j][1], 7200, 10000 + 2500 * j, ls[j][2],
                                     600 * Len(ls[j][1]), 80000)]
                             \o << Raw(BodyFragA, 7200, 70000, 1200, 600, 80000),
                                   Raw(BodyFragB, 7800, 70000, 1200, 1200, 80000) >>] >>,
     readFails |-> FALSE, openError |-> "none"]

HeadInit ==
    \E n \in 1..MaxHeadLines :
        \E ls \in [1..n -> HeadLines] : ClassInit(HeadDoc(ls))

SpecHead == HeadInit /\ [][ClassNext]_vars

\* the prefix C15 gives a line of text s and maximum fragment height h
ExpectedPrefix(s, h, bh) ==
    IF StartsWithBullet(s) \/ StartsWithNumber(s) THEN <<>>
    ELSE IF FGreaterEq(h, FMul(bh, Lit_1_4)) THEN PrefixH2
    ELSE IF FGreaterEq(h, FMul(bh, Lit_1_15)) /\ FLess(h, FMul(bh, Lit_1_4)) THEN PrefixH3
    ELSE <<>>

\* line j as C15 has it written
ExpectedText(j) ==
    ExpectedPrefix(lineMeta[j].lineStr, lineMeta[j].maxLineHeight, bodyHeight)
        \o ListRewrite(lineMeta[j].lineStr)

\* C15: after the classifier, the k-th text line of the output is the k-th
\* emitted line with "## " in front when its maximum fragment height is at
\* least 1.4 * bodyHeight, "### " when it is at least 1.15 * bodyHeight and
\* below 1.4 * bodyHeight, and nothing otherwise; a line that starts with a
\* bullet glyph or with digits and a dot has no heading prefix.
C15_HeadingPrefix == pc = "join" => EmittedAs(TextLines, KeptLines, ExpectedText)

\* C15 witness: with a body height of 12, a "### " heading of height exactly
\* 13.8 and a numbered line of height 16.8 that carries no prefix
C15_Witness ==
    /\ pc = "join"
    /\ bodyHeight = FromInt(12)
    /\ \E j, k \in 1..Len(lineMeta) :
          /\ lineMeta[j].maxLineHeight = FromHundredths(1380)
          /\ lineMeta[j].lineStr = <<73, 110>>
          /\ PrefixH3 \o lineMeta[j].lineStr \in {markdownLines[n] : n \in 1..Len(markdownLines)}
          /\ lineMeta[k].maxLineHeight = FromHundredths(1680)
          /\ lineMeta[k].lineStr = <<49, DOT, SP, 120>>
          /\ lineMeta[k].lineStr \in {markdownLines[n] : n \in 1..Len(markdownLines)}

----------------------------------------------------------------------------
(* SpecMarks: documents with a body line on every page and a marker line on *)
(* the first pages                                                          *)

MaxMarkPages == 2

\* ceil(0.4 * 5) = 2 and ceil(0.4 * 6) = 3
MarkPageCounts == {1, 2, 5, 6}

\* "7", "12" and "."
MarkTexts == { <<55>>, <<49, 50>>, <<DOT>> }

\* 40 units from the top (top band) and 760 (bottom band) of a page of 800
\* units
BandPositions == {4000, 76000}

\* the markers: every text in either band at height 11.39, just below 0.95
\* times 12; "7" at 11.39 mid-page, 450 units from the top; "7" in either band
\* at 11.4
Marks ==
    (BandPositions \X {1139} \X MarkTexts)
        \cup {<<45000, 1139, <<55>>>>}
        \cup (BandPositions \X {1140} \X {<<55>>})

\* page i: the body line "a" "b." mid-page and, on the first pages, the marker
MarkPage(i, ms) ==
    [height |-> 80000,
     items |-> << Raw(BodyFragA, 7200, 40000, 1200, 600, 80000),
                  Raw(BodyFragB, 7800, 40000, 1200, 1200, 80000) >>
               \o (IF i <= Len(ms)
                   THEN << Raw(ms[i][3], 30000, ms[i][1], ms[i][2],
                               600 * Len(ms[i][3]), 80000) >>
                   ELSE <<>>)]

MarkDoc(n, ms) ==
    [name |-> BookName, pages |-> [i \in 1..n |-> MarkPage(i, ms)],
     readFails |-> FALSE, openError |-> "none"]

\* documents of the page counts of MarkPageCounts with a marker on each of
\* the first pages, MaxMarkPages of them at most
MarksInit ==
    \E n \in MarkPageCounts :
        \E ms \in [1..(IF n < MaxMarkPages THEN n ELSE MaxMarkPages) -> Marks] :
            ClassInit(MarkDoc(n, ms))

SpecMarks == MarksInit /\ [][ClassNext]_vars

\* the state of the classifier loop when it comes to line idx
ClassifierBefore(idx, marked) ==
    ClassifyFrom(ClassifierStart, SubSeq(lineMeta, 1, idx - 1), 1, marked, bodyHeight)

ClassifierAt(idx) == ClassifierBefore(idx, SuppressedLines)

\* C16: a suppressed line contributes nothing: the iteration of the
\* classifier loop on a line flagged as page furniture leaves the output
\* lines as they were (no blank line, no rule line, no text).
C16_SuppressedContributesNothing ==
    pc = "join" =>
        \A idx \in SuppressedLines :
            ClassifyLine(ClassifierAt(idx), lineMeta[idx], TRUE, bodyHeight).md
                = ClassifierAt(idx).md

\* the line the classifier emits for line j when it is not suppressed
EmittedText(j) ==
    ListPrefix(lineMeta[j].lineStr,
               HeaderPrefix(lineMeta[j].maxLineHeight, bodyHeight))
        \o ListRewrite(lineMeta[j].lineStr)

\* the text lines of the output are the lines with text that are not in
\* dropped
OutputDrops(dropped) == EmittedAs(TextLines, KeptAmong(dropped), EmittedText)

\* a y in the top or bottom 10% band of a page of height pageHeight
InBandOf(y, pageHeight, tenth) == FLessEq(y, tenth) \/ FGreaterEq(y, FSub(pageHeight, tenth))

\* line j lies in the top or bottom 10% band of its page
InBandAmong(j, pageHeights) ==
    InBandOf(lineMeta[j].line.y, pageHeights[lineMeta[j].line.page],
             FMul(pageHeights[lineMeta[j].line.page], FromHundredths(10)))

InBand(j) == InBandAmong(j, PageHeights)

\* the maximum height of line j is below 0.95 * bodyHeight
IsSmall(j) == FLess(lineMeta[j].maxLineHeight, FMul(bodyHeight, FromHundredths(95)))

\* a line with text, in a band, with a maximum height below 0.95 * bodyHeight
BandSmall(j) == lineMeta[j].lineStr # <<>> /\ InBand(j) /\ IsSmall(j)

BandSmallAmong(pageHeights) ==
    {j \in 1..Len(lineMeta) :
        lineMeta[j].lineStr # <<>> /\ InBandAmong(j, pageHeights) /\ IsSmall(j)}

NormalizedOf(j) == normalizePageMarker(lineMeta[j].lineStr)

\* ceil(0.4 * n)
CeilRepeat(n) == CHOOSE k \in 0..n : 10 * k >= 4 * n /\ 10 * (k - 1) < 4 * n

\* the group of every line from line j on: normalized text, band and y-bucket
RECURSIVE GroupsFrom(_, _)
GroupsFrom(j, pageHeights) ==
    IF j > Len(lineMeta) THEN <<>>
    ELSE <<ClusterKey(lineMeta[j], pageHeights, bodyHeight)>> \o GroupsFrom(j + 1, pageHeights)

\* the pages on which the group of line j occurs among the lines of members
GroupPages(groups, j, members) ==
    {lineMeta[k].line.page : k \in {k \in members : groups[k] = groups[j]}}

\* the lines of members whose group occurs on at least minRepeat pages
Recurring(groups, members, minRepeat) ==
    {j \in members : Cardinality(GroupPages(groups, j, members)) >= minRepeat}

RecurringAmong(pageHeights) ==
    Recurring(GroupsFrom(1, pageHeights), BandSmallAmong(pageHeights),
              Max(2, CeilRepeat(NumPages)))

FurnitureAsClaimed == RecurringAmong(PageHeights)

NonEmptyOf(marked) == {j \in marked : NormalizedOf(j) # <<>>}

FurnitureNonEmpty == NonEmptyOf(FurnitureAsClaimed)

\* every line of marked is in a band, small, and in a document of several pages
NoneOutside(marked, pageHeights) ==
    \A j \in marked : InBandAmong(j, pageHeights) /\ IsSmall(j) /\ NumPages > 1

\* no mid-page line, no line of body size or larger and no line of a
\* single-page document is dropped
NeverDropped == NoneOutside(SuppressedLines, PageHeights)

\* C18 as stated: a line is dropped exactly when it lies in a band, its
\* maximum height is below 0.95 * bodyHeight and its group occurs on at least
\* max(2, ceil(0.4 * pageCount)) distinct pages.
C18_DroppedExactlyWhenRecurring ==
    pc = "join" => OutputDrops(FurnitureAsClaimed) /\ NeverDropped

\* C18 amended: a line is dropped exactly when its normalized text is not
\* empty, it lies in a band, its maximum height is below 0.95 * bodyHeight and
\* its group occurs on at least max(2, ceil(0.4 * pageCount)) distinct pages;
\* no mid-page line, no line of body size or larger and no line of a
\* single-page document is dropped.
C18_DroppedExactlyWhenNonEmptyRecurring ==
    pc = "join" => OutputDrops(FurnitureNonEmpty) /\ NeverDropped

\* C18 witness: in a document of 5 pages a marker recurs on 2 pages and is
\* dropped on both
C18_Witness ==
    /\ pc = "join"
    /\ NumPages = 5
    /\ Cardinality(SuppressedLines) = 2
    /\ Len(TextLines) = Len(lineMeta) - 2

\* the text s with every run of digits written as one '#'
RECURSIVE MaskDigitRuns(_, _)
MaskDigitRuns(s, i) ==
    IF i > Len(s) THEN <<>>
    ELSE IF IsDigit(s[i]) THEN <<HASH>> \o MaskDigitRuns(s, i + SpanDigit(s, i))
    ELSE <<s[i]>> \o MaskDigitRuns(s, i + 1)

\* C19: two band lines whose texts differ only in their digits, however many
\* digits a run has, normalize to the same string, and are in the same
\* recurrence group when they share band and y-bucket.
C19_DigitRunsCollapse ==
    pc = "join" =>
        \A j, k \in {n \in 1..Len(lineMeta) : BandSmall(n)} :
            MaskDigitRuns(lineMeta[j].lineStr, 1) = MaskDigitRuns(lineMeta[k].lineStr, 1)
                => /\ NormalizedOf(j) = NormalizedOf(k)
                   /\ (ClusterKey(lineMeta[j], PageHeights, bodyHeight)[2]
                           = ClusterKey(lineMeta[k], PageHeights, bodyHeight)[2]
                       /\ ClusterKey(lineMeta[j], PageHeights, bodyHeight)[3]
                           = ClusterKey(lineMeta[k], PageHeights, bodyHeight)[3])
                      => ClusterKey(lineMeta[j], PageHeights, bodyHeight)
                           = ClusterKey(lineMeta[k], PageHeights, bodyHeight)

----------------------------------------------------------------------------
(* SpecGaps: the line text builder (lines 243-314) on lines of up to        *)
(* MaxGapFrags two-letter fragments with 0, 1, 2 or 3 positive gaps          *)

MaxGapFrags == 4

\* "ab": 12 units wide, so that avgCharWidth is 6 and baseThreshold 3.6
GapFragText == <<97, 98>>

\* gaps of 0, 1, 3, 4 and 7 units
GapChoices == {0, 100, 300, 400, 700}

\* "a" at x = 0.7, 0.2 wide, and "b" at x = 0.9: the gap 0.9 - (0.7 + 0.2) is
\* positive as a number
TouchingLine ==
    <<Fragment(<<97>>, 70, 10000, 1200, 20, 1), Fragment(<<98>>, 90, 10000, 1200, 20, 1)>>

GapsInit ==
    /\ file = StageDoc
    /\ aborted = FALSE
    /\ pc = "lineMeta"
    /\ pageNo = 2
    /\ allItems = <<>>
    /\ pdfOpen = TRUE
    /\ destroyed = 0
    /\ cleaned = {1}
    /\ pagesLoaded = {1}
    /\ bodyHeight = FromInt(12)
    /\ \/ \E n \in 2..MaxGapFrags :
             \E gs \in [1..(n - 1) -> GapChoices] :
                lines = OneLine(LineItems([j \in 1..n |-> GapFragText], gs, 1, 1000))
       \/ lines = OneLine(TouchingLine)
    /\ lineMeta = <<>>
    /\ markdownLines = <<>>
    /\ rawIn = <<>>
    /\ rawMD = <<>>
    /\ result = Pending
    /\ BatchIdle

SpecGaps == GapsInit /\ [][LineNext]_vars

\* the non-whitespace fragments of the line that was built
BuiltFrom == NonSpaceOf(CleanedOf(lineMeta[1].line.items))

\* (medianGap + p90Gap) / 2 and 1.4 * medianGap
Midpoint(ns) == FDiv(FAdd(medianGap(ns), p90Gap(ns)), Two)
ScaledMedian(ns) == FMul(medianGap(ns), Lit_1_4)

\* p90Gap > 1.6 * medianGap
SpreadGaps(ns) == FGreater(p90Gap(ns), FMul(medianGap(ns), Lit_1_6))

\* the threshold as C17 states it: the median rule applies with any number of
\* gap samples
ThresholdAsClaimed(ns) ==
    MathMax(baseThreshold(ns),
            IF Len(sortedGaps(ns)) >= 3 /\ SpreadGaps(ns) THEN Midpoint(ns)
            ELSE IF FSign(medianGap(ns)) > 0 THEN ScaledMedian(ns)
            ELSE baseThreshold(ns))

\* the threshold with the median rule for at least 3 gap samples only
ThresholdFromThreeGaps(ns) ==
    MathMax(baseThreshold(ns),
            IF Len(sortedGaps(ns)) >= 3 /\ SpreadGaps(ns) THEN Midpoint(ns)
            ELSE IF Len(sortedGaps(ns)) >= 3 /\ FSign(medianGap(ns)) > 0
                 THEN ScaledMedian(ns)
            ELSE baseThreshold(ns))

\* the text of the line when its word-gap threshold is threshold
TextWith(items, threshold) ==
    LET cl == CleanedOf(items)
        ns == NonSpaceOf(cl)
        line == buildWithThreshold(cl, threshold)
    IN  IF /\ ~HasSpace(line)
           /\ FGreater(singleCharRate(ns), Lit_0_6)
           /\ FSign(medianGap(ns)) > 0
        THEN buildWithThreshold(cl, fallbackThreshold(ns))
        ELSE line

\* C17 as stated: the word-gap threshold is max(baseThreshold, c) with
\* c = (medianGap + p90Gap)/2 for at least 3 gap samples and
\* p90Gap > 1.6 * medianGap, otherwise c = 1.4 * medianGap if medianGap > 0,
\* also with 1 or 2 gap samples, otherwise c = baseThreshold; the line is
\* spaced by that threshold.
C17_ThresholdMedianAlways ==
    pc = "classify" =>
        /\ wordGapThreshold(BuiltFrom) = ThresholdAsClaimed(BuiltFrom)
        /\ lineMeta[1].lineStr
               = TextWith(lineMeta[1].line.items, ThresholdAsClaimed(BuiltFrom))

\* C17 amended: the word-gap threshold is max(baseThreshold, c) with
\* c = (medianGap + p90Gap)/2 for at least 3 gap samples and
\* p90Gap > 1.6 * medianGap, otherwise c = 1.4 * medianGap if there are at
\* least 3 gap samples and medianGap > 0, otherwise (also with 1 or 2 gap
\* samples) c = baseThreshold; the line is spaced by that threshold.
C17_ThresholdMedianFromThreeGaps ==
    pc = "classify" =>
        /\ wordGapThreshold(BuiltFrom) = ThresholdFromThreeGaps(BuiltFrom)
        /\ lineMeta[1].lineStr
               = TextWith(lineMeta[1].line.items, ThresholdFromThreeGaps(BuiltFrom))

\* C17 witness: a line of four fragments with the gaps 3, 4, 4 was built with
\* the threshold 1.4 * 4 = 5.6, above baseThreshold 3.6, and has no space
C17_Witness ==
    /\ pc = "classify"
    /\ sortedGaps(BuiltFrom) = <<FromInt(3), FromInt(4), FromInt(4)>>
    /\ wordGapThreshold(BuiltFrom) = ScaledMedian(BuiltFrom)
    /\ FGreater(ScaledMedian(BuiltFrom), baseThreshold(BuiltFrom))
    /\ ~HasSpace(lineMeta[1].lineStr)

----------------------------------------------------------------------------
(* Password failures in the batch (pdf2txt-ui.js 365-390)                   *)

\* the error is a PasswordException or its message mentions 'password'
IsPasswordFailure(err) == err.name = "PasswordException" \/ IncludesPassword(err.message)

\* a step in which the processPDF call that convertAll awaits for entry id
\* settles with a password failure, the entry not being canceled: the entry
\* gets status error and the password-protected message
PasswordFailureStep(id) ==
    (/\ cpc = "race" /\ item = id
     /\ HasStatus(files, id, "processing")
     /\ id \notin signals
     /\ id \in inflight /\ id \notin inflight'
     /\ EntryOf(id).file.fate.kind # "ok"
     /\ IsPasswordFailure(ErrorOf(EntryOf(id).file.fate)))
        => \A e \in EntriesOf(files', id) :
              /\ e.status = "error"
              /\ e.errorMsg = PasswordProtectedMessage
              /\ e.md = ""

\* an entry with status error stays as it is until it is removed, and no
\* processPDF call is started for it
ErrorIsFinal(id) ==
    \A e \in EntriesOf(files, id) :
        e.status = "error" =>
            /\ EntriesOf(files', id) \in {{}, {e}}
            /\ id \in inflight' => id \in inflight

\* an entry of the queue that is not queued is not queued after the step
NeverRequeued(id) ==
    (EntriesOf(files, id) # {} /\ \A e \in EntriesOf(files, id) : e.status # "queued")
        => \A e \in EntriesOf(files', id) : e.status # "queued"

\* C20: a document whose extraction fails with a PasswordException, or with
\* an error whose message mentions 'password', gets status error and the
\* message 'Password-protected PDF'; it keeps them and is not handed to
\* processPDF again; no queue entry returns to queued after it left that
\* status.
C20_PasswordFailureIsFinal ==
    [][\A id \in 1..MaxIds :
          PasswordFailureStep(id) /\ ErrorIsFinal(id) /\ NeverRequeued(id)]_vars

\* C20 witness: the batch is over; a document that failed with a
\* PasswordException and one that failed with a message mentioning
\* 'password' both show the password-protected message
C20_Witness ==
    /\ ~isProcessing
    /\ inflight = {}
    /\ \E j, k \in 1..Len(files) :
          /\ files[j].file.fate.kind = "PasswordException"
          /\ files[k].file.fate.kind = "PasswordMessage"
          /\ files[j].status = "error" /\ files[k].status = "error"
          /\ files[j].errorMsg = PasswordProtectedMessage
          /\ files[k].errorMsg = PasswordProtectedMessage

----------------------------------------------------------------------------
(* SpecRule: the classifier on pages of lines with tight and wide gaps      *)

MaxRuleLines == 2

\* "In", "- x" and a whitespace marker (a line without text)
RuleTexts == { <<73, 110>>, <<HYPHEN, SP, 120>>, <<SP>> }

RuleHeights == {1200, 2400}

\* the distance to the line before: 8 units (below 0.9 * 12), 25 units (above
\* 1.8 * 12), or 0 for a line that opens the next page, 300 units from its top
RuleGaps == {800, 2500, 0}

\* the number of list lines "- x", 8 units apart, the first page begins with
RulePrefixes == {0, 3}

\* the lines ls from line j on, placed after a line at y on page
RECURSIVE PlaceFrom(_, _, _, _)
PlaceFrom(ls, j, page, y) ==
    IF j > Len(ls) THEN <<>>
    ELSE LET newPage == ls[j][3] = 0
             p == IF newPage THEN page + 1 ELSE page
             yTop == IF newPage THEN 30000 ELSE y + ls[j][3]
         IN  << [page |-> p,
                 raw |-> Raw(ls[j][1], 7200, yTop, ls[j][2], 600 * Len(ls[j][1]), 80000)] >>
             \o PlaceFrom(ls, j + 1, p, yTop)

\* k list lines from y = 50 on, then the lines ls
PlacedLines(k, ls) ==
    [j \in 1..k |-> [page |-> 1,
                     raw |-> Raw(<<HYPHEN, SP, 120>>, 7200, 5000 + 800 * (j - 1), 1200,
                                 1800, 80000)]]
        \o PlaceFrom(ls, 1, 1, 5000 + 800 * (k - 1))

RawsOn(placed, i) ==
    LET on == SelectSeq(placed, LAMBDA q : q.page = i)
    IN  [j \in 1..Len(on) |-> on[j].raw]

RuleDoc(k, ls) ==
    LET placed == PlacedLines(k, ls)
    IN  [name |-> DocName,
         pages |-> [i \in 1..Last(placed).page |->
                       [height |-> 80000, items |-> RawsOn(placed, i)]],
         readFails |-> FALSE, openError |-> "none"]

RuleInit ==
    \E k \in RulePrefixes :
        \E n \in 1..MaxRuleLines :
            \E ls \in [1..n -> RuleTexts \X RuleHeights \X RuleGaps] :
                ClassInit(RuleDoc(k, ls))

SpecRule == RuleInit /\ [][ClassNext]_vars

\* the classifier loop after its iteration on line idx, and the output lines
\* that iteration appended
StepAfter(before, idx, marked) ==
    ClassifyLine(before, lineMeta[idx], idx \in marked, bodyHeight)

StepOf(idx) == StepAfter(ClassifierAt(idx), idx, SuppressedLines)

AppendedBy(before, after) == SubSeq(after.md, Len(before.md) + 1, Len(after.md))

AppendedAt(idx) == AppendedBy(ClassifierAt(idx), StepOf(idx))

RuleInsertedAt(idx) == \E n \in 1..Len(AppendedAt(idx)) : AppendedAt(idx)[n] = RuleLine

\* line idx has a line before it on its page
HasSamePageGap(idx) ==
    idx > 1 /\ lineMeta[idx - 1].line.page = lineMeta[idx].line.page

GapAt(idx) == FSub(lineMeta[idx].line.y, lineMeta[idx - 1].line.y)

\* the gap before line idx exceeds 1.8 * bodyHeight
SectionGapAt(idx) == FGreater(GapAt(idx), FMul(bodyHeight, Lit_1_8))

\* line idx is emitted with a heading prefix
CarriesHeading(idx) ==
    /\ lineMeta[idx].lineStr # <<>>
    /\ idx \notin SuppressedLines
    /\ ExpectedPrefix(lineMeta[idx].lineStr, lineMeta[idx].maxLineHeight, bodyHeight) # <<>>

\* the conditions of the section rule for line idx
RuleDue(idx) ==
    /\ HasSamePageGap(idx)
    /\ SectionGapAt(idx)
    /\ CarriesHeading(idx)
    /\ StepOf(idx).denseRun < 3
    /\ (ClassifierAt(idx).md = <<>> \/ Last(ClassifierAt(idx).md) # RuleLine)

\* the rule line at position p of the output has one blank line before it, and
\* one blank line and then a heading line after it
RuleFramed(md, p) ==
    /\ p > 1 /\ md[p - 1] = <<>>
    /\ (p > 2 => md[p - 2] # <<>>)
    /\ p + 2 <= Len(md)
    /\ md[p + 1] = <<>>
    /\ md[p + 2] # <<>> /\ md[p + 2][1] = HASH

\* C21: a rule line is inserted before a line exactly when the gap to the
\* line before on its page exceeds 1.8 * bodyHeight, the line carries a
\* heading prefix, the dense-run counter is below 3 and the previous output
\* line is not a rule; every rule of the output has exactly one blank line
\* before it, and one blank line and then the heading line after it.
C21_RuleExactlyWhenDue ==
    pc = "join" =>
        /\ \A idx \in 1..Len(lineMeta) : RuleInsertedAt(idx) <=> RuleDue(idx)
        /\ \A p \in 1..Len(markdownLines) :
              markdownLines[p] = RuleLine => RuleFramed(markdownLines, p)

\* C22: the dense-run guard withholds the rule: a heading line whose gap to
\* the line before on its page exceeds 1.8 * bodyHeight, reached with a
\* dense-run counter of 3 or more (after a streak of tightly spaced lines),
\* gets no rule line.
C22_DenseStreakWithholdsRule ==
    pc = "join" =>
        \A idx \in 1..Len(lineMeta) :
            (/\ CarriesHeading(idx)
             /\ HasSamePageGap(idx)
             /\ SectionGapAt(idx)
             /\ ClassifierAt(idx).denseRun >= 3)
                => ~RuleInsertedAt(idx)

\* the iteration that takes the classifier loop from before to after appends
\* no blank line and no rule line, and leaves a dense-run counter of dense
ResetsBy(appended, after, dense) ==
    /\ \A n \in 1..Len(appended) : appended[n] # <<>> /\ appended[n] # RuleLine
    /\ after.denseRun = dense

ResetsFrom(before, after, idx, marked) ==
    ResetsBy(AppendedBy(before, after), after,
             IF /\ lineMeta[idx].lineStr # <<>>
                /\ idx \notin marked
                /\ IsListItem(ListRewrite(lineMeta[idx].lineStr))
             THEN 1 ELSE 0)

ResetsStep(before, idx, marked) == ResetsFrom(before, StepAfter(before, idx, marked), idx, marked)

\* the iteration of the classifier loop on line idx resets
ResetsAt(idx, marked) == ResetsStep(ClassifierBefore(idx, marked), idx, marked)

\* C23: at the first line of the document and of every page the classifier
\* appends no blank line and no rule line, and the dense-run counter starts
\* again from zero (it is 1 after a list item, 0 after any other line),
\* whatever the y of the line and of the last line of the page before.
C23_PageStartResets ==
    pc = "join" =>
        \A idx \in 1..Len(lineMeta) : ~HasSamePageGap(idx) => ResetsAt(idx, SuppressedLines)

\* C23 witness: the second page opens with a heading 300 units from the top,
\* far below the last line of the first page, reached with a dense-run
\* counter of 5; the heading follows the last list line directly
C23_Witness ==
    /\ pc = "join"
    /\ \E idx \in 2..Len(lineMeta) :
          /\ lineMeta[idx].line.page = 2
          /\ lineMeta[idx - 1].line.page = 1
          /\ SectionGapAt(idx)
          /\ CarriesHeading(idx)
          /\ ClassifierAt(idx).denseRun = 5
          /\ AppendedAt(idx) = <<EmittedText(idx)>>
          /\ StepOf(idx).denseRun = 0

----------------------------------------------------------------------------
(* The list-continuation join of mergeWrappedLines (lines 504-511)          *)

\* s begins with pre
IsPrefixOf(pre, s) == Len(pre) <= Len(s) /\ SubSeq(s, 1, Len(pre)) = pre

\* a line that may continue a list item: not blank, no list item, no heading
IsContinuationLine(l) == Trim(l) # <<>> /\ ~isList(l) /\ ~isHeading(l)

\* the list item buffer continued by current as the branch of lines 507-510
\* writes it
ContinuationOf(buffer, current) ==
    buffer
    \o (IF shouldInsertSpace(getLastChar(buffer), getFirstChar(current)) THEN <<SP>> ELSE <<>>)
    \o Trim(current)

\* C24: in the hard-wrap merge a list-item line followed by a non-blank,
\* non-list, non-heading line is continued by it: a line of the result begins
\* with the list item, the joiner (one space, none between two CJK
\* characters) and the trimmed continuation.
C24_ListItemContinued ==
    pc = "collapse" =>
        LET ls == SplitLines(rawIn)
            out == SplitLines(rawMD)
        IN  \A i \in 1..(Len(ls) - 1) :
                (isList(ls[i]) /\ IsContinuationLine(ls[i + 1])) =>
                    \E j \in 1..Len(out) : IsPrefixOf(ContinuationOf(ls[i], ls[i + 1]), out[j])

----------------------------------------------------------------------------
(* Cooperative cancellation of processPDF (lines 86-92 and the checks)      *)

\* C25: once the cancellation signal was set while processPDF was running,
\* processPDF does not resolve with an output blob, neither the normal output
\* nor the placeholder of a document without fragments.
C25_AbortedNeverResolves == aborted => result.kind # "resolved"

----------------------------------------------------------------------------
(* convertAll reads the live queue (lines 184-190, 326-333, 388-393)        *)

\* some entry of fs is queued
AnyQueued(fs) == \E k \in 1..Len(fs) : fs[k].status = "queued"

\* a queued entry leaves the status queued during a batch only by being taken
\* up by that batch or by being removed
TakenUpOrRemoved(id) ==
    (isProcessing /\ HasStatus(files, id, "queued") /\ ~HasStatus(files', id, "queued")) =>
        \/ EntriesOf(files', id) = {}
        \/ HasStatus(files', id, "processing") /\ isProcessing' /\ item' = id

\* C26: convertAll works on the live queue: isProcessing does not return to
\* false while an entry of the queue is queued, an entry that is queued while
\* a batch runs, whenever it was added, leaves that status only when the batch
\* takes it up or the user removes it, and the batch does take it up.
C26_LiveQueueProcessed ==
    /\ [][(isProcessing /\ ~isProcessing') => ~AnyQueued(files')]_vars
    /\ [][\A id \in 1..MaxIds : TakenUpOrRemoved(id)]_vars
    /\ \A id \in 1..MaxIds :
          (isProcessing /\ HasStatus(files, id, "queued")) ~> HasStatus(files, id, "processing")

\* C26 amended: the same, except that the user can remove the entry before the
\* batch takes it up, and the batch takes it up when every processPDF call that
\* was started settles.
C26_LiveQueue ==
    /\ [][(isProcessing /\ ~isProcessing') => ~AnyQueued(files')]_vars
    /\ [][\A id \in 1..MaxIds : TakenUpOrRemoved(id)]_vars
    /\ CallsSettle =>
          \A id \in 1..MaxIds :
              (isProcessing /\ HasStatus(files, id, "queued")) ~> ~HasStatus(files, id, "queued")

\* C26 witness: an entry that addFiles pushed after convertAll was called is
\* being processed by the batch that call started, behind an entry that is
\* done, and its processPDF call is awaited
C26_Witness ==
    /\ isProcessing
    /\ cpc = "race"
    /\ \E j, k \in 1..Len(files) :
          /\ files[j].id <= idsAtStart
          /\ files[j].status = "done"
          /\ files[k].id > idsAtStart
          /\ files[k].id = item
          /\ files[k].status = "processing"

----------------------------------------------------------------------------
(* Queue deduplication of addFiles (lines 229-233)                          *)

\* C27: the queue never holds two entries with the same file name and the
\* same size.
C27_NoDuplicateEntries ==
    \A j, k \in 1..Len(files) :
        (files[j].file.name = files[k].file.name /\ files[j].file.size = files[k].file.size)
            => j = k

----------------------------------------------------------------------------
(* Blank lines of the output blob (lines 526-536)                           *)

\* processPDF from the estimator to the return value on the documents with
\* page marks
MarksTextNext == ClassNext \/ TextNext

SpecMarksText == MarksInit /\ [][MarksTextNext]_vars

\* s holds three newline characters in a row
HasBlankRun(s) == \E i \in 1..(Len(s) - 2) : s[i] = NL /\ s[i + 1] = NL /\ s[i + 2] = NL

\* C28: the output blob of processPDF never holds two or more consecutive
\* blank lines, that is three or more newline characters in a row, the seams
\* after the title line and before the footer separator included.
C28_NoBlankRunInOutput == result.kind = "resolved" => ~HasBlankRun(result.value)

----------------------------------------------------------------------------
(* Structural lines under the hyphenation merge (line 448)                  *)

\* a line as the classifier emits a list item or a heading: it begins with
\* the normalized bullet "- ", with digits and a full stop, or with a heading
\* prefix
IsEmittedStructural(l) ==
    \/ IsPrefixOf(<<HYPHEN, SP>>, l)
    \/ StartsWithNumber(l)
    \/ IsPrefixOf(<<HASH, HASH, SP>>, l)
    \/ IsPrefixOf(<<HASH, HASH, HASH, SP>>, l)

\* the lines ls grouped into runs, cut after every line in cuts; inside a run
\* the hyphen that ends a line and the line break after it are dropped
RECURSIVE DehyphenatedRuns(_, _, _, _)
DehyphenatedRuns(ls, cuts, i, cur) ==
    IF i > Len(ls) THEN <<cur>>
    ELSE IF (i - 1) \in cuts THEN <<cur>> \o DehyphenatedRuns(ls, cuts, i + 1, ls[i])
    ELSE DehyphenatedRuns(ls, cuts, i + 1, SubSeq(cur, 1, Len(cur) - 1) \o ls[i])

\* C29: the hyphenation merge swallows no structural line: its result is its
\* input with some breaks after a hyphen dropped together with the hyphen, and
\* the break before every line that the classifier emitted as a list item or
\* as a heading is kept, so that the line still starts a line of its own.
C29_StructuralLinesSurviveHyphenation ==
    pc = "merge" =>
        LET ls == SplitLines(rawIn)
        IN  \E cuts \in SUBSET (1..(Len(ls) - 1)) :
                /\ \A i \in (1..(Len(ls) - 1)) \ cuts : EndsWith(ls[i], <<HYPHEN>>)
                /\ \A i \in 2..Len(ls) : IsEmittedStructural(ls[i]) => (i - 1) \in cuts
                /\ rawMD = JoinWith(DehyphenatedRuns(ls, cuts, 2, ls[1]), <<NL>>)

----------------------------------------------------------------------------
(* Password helpers: src/README.md 22-75.  JavaScript's undefined and null   *)
(* are written "undefined" and "null"; a response code is written as its    *)
(* decimal numeral.                                                          *)

\* "incorrect"
IncorrectWord == <<105, 110, 99, 111, 114, 114, 101, 99, 116>>

\* window.pdfjsLib.PasswordResponses as the extractor defines it
PasswordResponses == [NEED_PASSWORD |-> "1", INCORRECT_PASSWORD |-> "2"]

\* the object {}: every property reads undefined
EmptyResponses == [NEED_PASSWORD |-> "undefined", INCORRECT_PASSWORD |-> "undefined"]

\* getPdfPasswordResponses() (lines 28-33); lib tells what window.pdfjsLib is:
\* "absent", "noTable" (loaded without PasswordResponses) or "table"
getPdfPasswordResponses(lib) == IF lib = "table" THEN PasswordResponses ELSE EmptyResponses

\* err && err.code (line 45)
CodeOf(err) == IF err.kind = "object" THEN err.code ELSE err.kind

\* String(err && err.message ? err.message : '').toLowerCase() (line 52)
LowerMessageOf(err) ==
    IF err.kind = "object" /\ err.hasMessage
    THEN toLowerCase(err.message)
    ELSE <<>>

PasswordState(invalid) == [status |-> "password", errorMsg |-> "null", invalidPassword |-> invalid]

\* getPasswordStateFromError(err) (lines 43-56)
getPasswordStateFromError(lib, err) ==
    LET responses == getPdfPasswordResponses(lib)
        code == CodeOf(err)
    IN  IF code = responses.INCORRECT_PASSWORD THEN PasswordState(TRUE)
        ELSE IF code = responses.NEED_PASSWORD THEN PasswordState(FALSE)
        ELSE IF IncludesSeq(LowerMessageOf(err), IncorrectWord) THEN PasswordState(TRUE)
        ELSE PasswordState(FALSE)

\* "", "Incorrect password", "INCORRECT PASSWORD", "No password given",
\* "incorrec t"
PasswordMessages ==
    { <<>>,
      <<73, 110, 99, 111, 114, 114, 101, 99, 116, 32, 112, 97, 115, 115, 119, 111, 114, 100>>,
      <<73, 78, 67, 79, 82, 82, 69, 67, 84, 32, 80, 65, 83, 83, 87, 79, 82, 68>>,
      <<78, 111, 32, 112, 97, 115, 115, 119, 111, 114, 100, 32, 103, 105, 118, 101, 110>>,
      <<105, 110, 99, 111, 114, 114, 101, 99, 32, 116>> }

\* the values of err.code: none, null, NEED_PASSWORD, INCORRECT_PASSWORD and a
\* code the table does not hold
ErrorCodes == {"undefined", "null", "1", "2", "3"}

\* the errors handed to getPasswordStateFromError: undefined, null, and error
\* objects with or without a code and a message
PasswordErrors ==
    {[kind |-> k, code |-> k, hasMessage |-> FALSE, message |-> <<>>] : k \in {"undefined", "null"}}
    \cup {[kind |-> "object", code |-> c, hasMessage |-> FALSE, message |-> <<>>] : c \in ErrorCodes}
    \cup {[kind |-> "object", code |-> c, hasMessage |-> TRUE, message |-> m] :
            c \in ErrorCodes, m \in PasswordMessages}

\* the call getPasswordStateFromError(file.err) is about to be made
PasswordInit ==
    /\ file \in {[lib |-> l, err |-> e] : l \in {"absent", "noTable", "table"}, e \in PasswordErrors}
    /\ aborted = FALSE
    /\ pc = "passwordState"
    /\ pageNo = 0
    /\ allItems = <<>>
    /\ pdfOpen = FALSE
    /\ destroyed = 0
    /\ cleaned = {}
    /\ pagesLoaded = {}
    /\ bodyHeight = Zero
    /\ lines = <<>>
    /\ lineMeta = <<>>
    /\ markdownLines = <<>>
    /\ rawIn = <<>>
    /\ rawMD = <<>>
    /\ result = Pending
    /\ BatchIdle

\* the call returns
GetPasswordState ==
    /\ pc = "passwordState"
    /\ result' = getPasswordStateFromError(file.lib, file.err)
    /\ pc' = "passwordStateDone"
    /\ UNCHANGED <<file, aborted, pageNo, allItems, pdfOpen, destroyed, cleaned, pagesLoaded>>
    /\ UNCHANGED analysisVars
    /\ UNCHANGED batchVars

PasswordNext == GetPasswordState

SpecPassword == PasswordInit /\ [][PasswordNext]_vars

\* the error carries the INCORRECT_PASSWORD code of the extractor's table
HasIncorrectCode(lib, err) ==
    lib = "table" /\ CodeOf(err) = PasswordResponses.INCORRECT_PASSWORD

\* the message of the error contains 'incorrect', in any case of the letters
SaysIncorrect(err) == IncludesSeq(LowerMessageOf(err), IncorrectWord)

\* the error has no code
HasNoCode(err) == CodeOf(err) = "undefined"

\* C30: getPasswordStateFromError always returns status 'password' with
\* errorMsg null; it returns invalidPassword = true only when the code of the
\* error is the INCORRECT_PASSWORD code of the extractor or its message
\* contains 'incorrect'; and an error with no code and no such message gets
\* invalidPassword = false, with or without the response-code table.
C30_PasswordStateFromError ==
    pc = "passwordStateDone" =>
        /\ result.status = "password"
        /\ result.errorMsg = "null"
        /\ result.invalidPassword => (HasIncorrectCode(file.lib, file.err) \/ SaysIncorrect(file.err))
        /\ (HasNoCode(file.err) /\ ~SaysIncorrect(file.err)) => ~result.invalidPassword

====
